---- MODULE Spec2Model ----
(***************************************************************************)
(* Model of the storage core of synapse-mcp:                               *)
(*   synapse/storage/file_manager.py   FileManager                         *)
(*   synapse/models/conversation.py    ConversationRecord, Solution        *)
(*                                                                         *)
(* Several parties (threads of one server process, or separate server      *)
(* processes sharing one data directory) call the public operations of     *)
(* FileManager.  Every operation is cut into the steps between which       *)
(* another party can run: each file-system call is one step.               *)
(*                                                                         *)
(* A timestamp is abstracted to what the code uses of it: created_at to    *)
(* its (year, month), which selects the directory, and time.time() to its  *)
(* integer second, which names a backup.                                   *)
(***************************************************************************)
EXTENDS Integers, Sequences, FiniteSets, TLC

\* ------------------------------------------------------------ bounds
NumParties == 2
NumIds == 1
MaxTs == 1
SecondsPerMonth == 1
MaxOps == 3
MaxFaults == 2

Parties == 1..NumParties
Instances == 1..NumParties
Ids == 1..NumIds

\* The (year, month) of a time: months are numbered from 1.
MonthOf(ts) == (ts \div SecondsPerMonth) + 1
MaxMonth == MonthOf(MaxTs)
Months == 1..MaxMonth
Paths == Ids \X Months
BackupNames == Ids \X (0..MaxTs)

\* ------------------------------------------------ records and documents
\* What a file (or a value) can be.  Every value is a record, so that any two
\* of them can be compared.
ABSENT == [kind |-> "absent"]
PARTIAL == [kind |-> "partial"]
NoRecord == [kind |-> "none"]
Deleted == [kind |-> "deleted"]
NoBackup == <<0, 0>>
NoPath == <<0, 0>>

\* The month directory a conversation id belongs to: the id is
\* conv_YYYYMMDD_xxx and created_at is taken at the same moment.
CreatedMonth(id) == ((id - 1) % MaxMonth) + 1

\* Solution(type, language, content): content is the set of keywords of
\* _fix_conversation_data that occur in it.
PySolution == [type |-> "code", language |-> "python", content |-> {"def "}]

\* ConversationRecord.validate_category.  "zh:x" stands for the Chinese name
\* the table standard_categories gives the standard category x, a word of
\* two characters or more without ASCII punctuation; "LONG" is a
\* category of more than 50 characters.
StandardCategories == {"problem-solving", "learning", "debugging", "code-review", "architecture", "performance", "general"}

validate_category(v) ==
    IF v = "" THEN "general"
    ELSE IF v \in StandardCategories THEN "zh:" \o v
    ELSE IF v = "LONG" THEN "general"
    ELSE v

\* Solution.validate_language: "raise" for a code solution without language.
validate_language(type, v) ==
    IF type = "code" /\ v = "none" THEN "raise"
    ELSE IF type # "code" /\ v # "none" THEN "none"
    ELSE v

\* The records the callers hand to save_conversation, as the constructor
\* ConversationRecord(...) yields them: one made without a category, whose
\* category is the field default "general" (pydantic does not validate a
\* default), and one made with category="debugging" and one code solution.

Payloads ==
    {[category |-> "general", solutions |-> <<>>],
     [category |-> validate_category("debugging"), solutions |-> <<PySolution>>]}

Records ==
    {[kind |-> "record", id |-> i, created_at |-> CreatedMonth(i),
      category |-> p.category, solutions |-> p.solutions] : i \in Ids, p \in Payloads}

\* ConversationRecord.to_dict followed by json.dump: the document written.
to_dict(r) ==
    [kind |-> "doc", id |-> r.id, created_at |-> r.created_at,
     category |-> r.category, solutions |-> r.solutions]

IsDoc(c) == c.kind = "doc"

\* An inference with no default: the language stays None when no keyword
\* occurs.
InferLanguageOrNone(content) ==
    IF content \cap {"npx", "npm", "yarn"} # {} THEN "bash"
    ELSE IF content \cap {"def ", "import ", "python"} # {} THEN "python"
    ELSE IF content \cap {"function", "const ", "let "} # {} THEN "javascript"
    ELSE IF content \cap {"<?php", "php"} # {} THEN "php"
    ELSE IF content \cap {"#include", "int main"} # {} THEN "c"
    ELSE IF content \cap {"public class", "java"} # {} THEN "java"
    ELSE "none"

\* FileManager._fix_conversation_data: the language of a code solution that
\* has none is inferred from the keywords of its content.
InferLanguage(content) ==
    IF content \cap {"npx", "npm", "yarn"} # {} THEN "bash"
    ELSE IF content \cap {"def ", "import ", "python"} # {} THEN "python"
    ELSE IF content \cap {"function", "const ", "let "} # {} THEN "javascript"
    ELSE IF content \cap {"<?php", "php"} # {} THEN "php"
    ELSE IF content \cap {"#include", "int main"} # {} THEN "c"
    ELSE IF content \cap {"public class", "java"} # {} THEN "java"
    ELSE "shell"

FixSolution(s) ==
    IF s.type = "code" /\ s.language = "none"
    THEN [s EXCEPT !.language = InferLanguage(s.content)]
    ELSE s

_fix_conversation_data(d) ==
    [d EXCEPT !.solutions = [k \in DOMAIN d.solutions |-> FixSolution(d.solutions[k])]]

\* Solution.from_dict and ConversationRecord.from_dict: cls(**data) runs the
\* validators again; a validator that raises makes from_dict raise.
SolutionFromDict(s) == [s EXCEPT !.language = validate_language(s.type, s.language)]

FromDictRaises(d) ==
    \E k \in DOMAIN d.solutions : validate_language(d.solutions[k].type, d.solutions[k].language) = "raise"

from_dict(d) ==
    [kind |-> "record", id |-> d.id, created_at |-> d.created_at,
     category |-> validate_category(d.category),
     solutions |-> [k \in DOMAIN d.solutions |-> SolutionFromDict(d.solutions[k])]]

\* json.load, _fix_conversation_data and from_dict on what was read; the
\* except clause of _load_conversation_from_file turns every failure into None.
Decode(c) ==
    IF ~IsDoc(c) THEN NoRecord
    ELSE IF FromDictRaises(_fix_conversation_data(c)) THEN NoRecord
    ELSE from_dict(_fix_conversation_data(c))

\* FileManager._get_conversation_file_path: conversations/YYYY/MM/{id}.json
_get_conversation_file_path(id, date_obj) == <<id, date_obj>>

\* _create_backup's file name: {stem}_backup_{int(time.time())}{suffix}
BackupName(path, ts) == <<path[1], ts>>

\* ------------------------------------------------- the search index: data
\* The conversations of the index model.  Their ids are numbers; the ids the
\* default factory makes are conv_YYYYMMDD_xxx, and the last id stands for an
\* id chosen by the caller that does not begin with conv_.
NumConvIds == 2
MaxLimit == 2
SummaryKept == 2

ConvIds == 1..NumConvIds
Indexers == {"save_tool", "search_tool"}

\* json_file.stem.startswith("conv_")
startswith_conv(id) == id < NumConvIds

\* A text is a sequence of words as typed.  Lower is str.lower(); Clean is
\* str.lower() followed by the removal of string.punctuation.
Lower(w) ==
    CASE w = "Async" -> "async"
      [] w = "The" -> "the"
      [] w = "C++" -> "c++"
      [] w = "Python" -> "python"
      [] OTHER -> w

Clean(w) ==
    CASE Lower(w) = "bug!" -> "bug"
      [] Lower(w) = "c++" -> "c"
      [] OTHER -> Lower(w)

\* The words of one character, for len(word) >= 2.
OneChar == {"c"}

stop_words ==
    {"the", "a", "an", "and", "or", "but", "in", "on", "at", "to", "for", "of", "with",
     "by", "is", "are", "was", "were", "be", "been", "have", "has", "had", "do", "does", "did"}

\* SearchIndexer._tokenize_text
_tokenize_text(text) ==
    {Clean(text[i]) : i \in DOMAIN text} \ (OneChar \cup stop_words)

_tokenize_query(query) == _tokenize_text(query)

\* conversation.summary[:200]: the model keeps the first SummaryKept words.
First200(text) == SubSeq(text, 1, IF Len(text) < SummaryKept THEN Len(text) ELSE SummaryKept)

\* A summary of more than 200 characters, whose last word lies beyond them.
LongSummary == [i \in 1..SummaryKept |-> "fix"] \o <<"leak">>

\* The days in a week and in a month of _matches_time_range, and the days
\* during which a conversation earns the freshness boost.
WeekDays == 7
MonthDays == 30
FreshDays == 30

\* What the callers index: title, summary, tags (validated: lower case, not
\* empty), category (validated), importance, and the age in days of created_at.
ConvContents ==
    {[title |-> <<"Async", "bug!">>, summary |-> LongSummary, tags |-> {"python"},
      category |-> "zh:debugging", importance |-> 3, days_old |-> 0],
     [title |-> <<"The", "C++">>, summary |-> <<"bug!">>, tags |-> {},
      category |-> "notes", importance |-> 5, days_old |-> 40],
     [title |-> <<"bug!">>, summary |-> <<"Async">>, tags |-> {"python", "async"},
      category |-> "zh:debugging", importance |-> 1, days_old |-> 10]}

Conversations ==
    {[kind |-> "record", id |-> i, title |-> c.title, summary |-> c.summary, tags |-> c.tags,
      category |-> c.category, importance |-> c.importance, days_old |-> c.days_old] :
        i \in ConvIds, c \in ConvContents}

\* SearchIndex(): keyword_index, tag_index and metadata_index, all empty.
EmptyMap == [k \in {} |-> {}]
SearchIndex == [kind |-> "index", keyword_index |-> EmptyMap, tag_index |-> EmptyMap, metadata_index |-> EmptyMap]

\* self._current_index is None
NoIndex == [kind |-> "none"]

\* for key in keys: map[key].add(id)   (map is a defaultdict(set))
AddToSets(map, keys, id) ==
    [k \in DOMAIN map \cup keys |->
        (IF k \in DOMAIN map THEN map[k] ELSE {}) \cup (IF k \in keys THEN {id} ELSE {})]

\* for key in keys: if key in map: map[key].discard(id); if not map[key]: del map[key]
DiscardFromSets(map, keys, id) ==
    [k \in {x \in DOMAIN map : ~(x \in keys /\ map[x] \ {id} = {})} |->
        IF k \in keys THEN map[k] \ {id} ELSE map[k]]

\* _extract_keywords that forgets the title.
ExtractKeywordsWithoutTitle(conversation) ==
    _tokenize_text(conversation.summary) \cup {Lower(t) : t \in conversation.tags}
        \cup (IF conversation.category # "" THEN {Lower(conversation.category)} ELSE {})

\* SearchIndexer._extract_keywords
_extract_keywords(conversation) ==
    _tokenize_text(conversation.title) \cup _tokenize_text(conversation.summary)
        \cup {Lower(t) : t \in conversation.tags}
        \cup (IF conversation.category # "" THEN {Lower(conversation.category)} ELSE {})

\* SearchIndexer._extract_keywords_from_metadata
_extract_keywords_from_metadata(metadata) ==
    _tokenize_text(metadata.title) \cup _tokenize_text(metadata.summary)
        \cup {Lower(t) : t \in metadata.tags}
        \cup (IF metadata.category # "" THEN {Lower(metadata.category)} ELSE {})

\* The metadata entry add_conversation and rebuild_index make.
MetadataOf(conversation) ==
    [title |-> conversation.title, category |-> conversation.category,
     importance |-> conversation.importance, days_old |-> conversation.days_old,
     tags |-> conversation.tags, summary |-> First200(conversation.summary)]

\* add_conversation, steps 1 to 3, on the loaded index.
IndexWith(index, conversation) ==
    [index EXCEPT
        !.keyword_index = AddToSets(@, _extract_keywords(conversation), conversation.id),
        !.tag_index = AddToSets(@, {Lower(t) : t \in conversation.tags}, conversation.id),
        !.metadata_index = [i \in DOMAIN @ \cup {conversation.id} |->
                               IF i = conversation.id THEN MetadataOf(conversation) ELSE @[i]]]

\* remove_conversation, steps 2 to 4, for an id that has a metadata entry.
IndexWithout(index, id) ==
    LET metadata == index.metadata_index[id]
    IN [index EXCEPT
        !.keyword_index = DiscardFromSets(@, _extract_keywords_from_metadata(metadata), id),
        !.tag_index = DiscardFromSets(@, {Lower(t) : t \in metadata.tags}, id),
        !.metadata_index = [i \in DOMAIN @ \ {id} |-> @[i]]]

\* SearchIndex.to_dict written by json.dump, and SearchIndex.from_dict of what
\* json.load reads: the sets become lists and sets again.
\* list(conv_ids): the members of the set in some order; set(conv_ids).
RECURSIVE SetToList(_)
SetToList(set) ==
    IF set = {} THEN <<>>
    ELSE LET x == CHOOSE x \in set : TRUE IN <<x>> \o SetToList(set \ {x})

ListToSet(list) == {list[k] : k \in DOMAIN list}

\* The stats save_index sets before it writes.
StatsOf(index) ==
    [total_conversations |-> Cardinality(DOMAIN index.metadata_index),
     total_keywords |-> Cardinality(DOMAIN index.keyword_index),
     total_tags |-> Cardinality(DOMAIN index.tag_index)]

\* A document written without the tag index.
IndexToDictWithoutTags(index) ==
    [kind |-> "indexdoc",
     keyword_index |-> [k \in DOMAIN index.keyword_index |-> SetToList(index.keyword_index[k])],
     tag_index |-> EmptyMap,
     metadata_index |-> index.metadata_index, stats |-> StatsOf(index)]

IndexToDict(index) ==
    [kind |-> "indexdoc",
     keyword_index |-> [k \in DOMAIN index.keyword_index |-> SetToList(index.keyword_index[k])],
     tag_index |-> [t \in DOMAIN index.tag_index |-> SetToList(index.tag_index[t])],
     metadata_index |-> index.metadata_index, stats |-> StatsOf(index)]

IndexFromDict(data) ==
    [kind |-> "index",
     keyword_index |-> [k \in DOMAIN data.keyword_index |-> ListToSet(data.keyword_index[k])],
     tag_index |-> [t \in DOMAIN data.tag_index |-> ListToSet(data.tag_index[t])],
     metadata_index |-> data.metadata_index]

\* SearchIndexer._search_by_keywords and _search_by_tags
_search_by_keywords(index, query_words) ==
    UNION {index.keyword_index[w] : w \in query_words \cap DOMAIN index.keyword_index}

_search_by_tags(index, tags) ==
    UNION {index.tag_index[t] : t \in {Lower(x) : x \in tags} \cap DOMAIN index.tag_index}

\* SearchIndexer._matches_time_range; "" is no time range.
_matches_time_range(metadata, time_range) ==
    IF time_range = "week" THEN metadata.days_old <= WeekDays
    ELSE IF time_range = "month" THEN metadata.days_old <= MonthDays
    ELSE TRUE

\* SearchIndexer._calculate_relevance_score, in units of 1/ScoreScale, and
\* round(score, 3) in thousandths.
ScoreScale == 6000

Matches(words, query_words) == Cardinality(query_words \cap words)

_calculate_relevance_score(metadata, query_words, tags) ==
    LET title_matches == Matches(_tokenize_text(metadata.title), query_words)
        search_tags == {Lower(t) : t \in tags}
        tag_matches == Cardinality(search_tags \cap {Lower(t) : t \in metadata.tags})
        summary_matches == Matches(_tokenize_text(metadata.summary), query_words)
        title_score == IF title_matches > 0 /\ query_words # {}
                       THEN (title_matches * (ScoreScale \div 2)) \div Cardinality(query_words) ELSE 0
        tag_score == IF tags # {} /\ tag_matches > 0
                     THEN (tag_matches * ((ScoreScale * 3) \div 10)) \div Cardinality(search_tags) ELSE 0
        summary_score == IF summary_matches > 0 /\ query_words # {}
                         THEN (summary_matches * (ScoreScale \div 5)) \div Cardinality(query_words) ELSE 0
        importance_boost == (metadata.importance * ScoreScale) \div 100
        freshness_boost == IF metadata.days_old <= FreshDays
                           THEN ((FreshDays - metadata.days_old) * ScoreScale) \div (FreshDays * 20) ELSE 0
        score == title_score + tag_score + summary_score + importance_boost + freshness_boost
    IN IF score < ScoreScale THEN score ELSE ScoreScale

Round3(score) == (score * 1000 + ScoreScale \div 2) \div ScoreScale

\* Candidates that always intersects, without the fallback to the tag ids.
CandidatesAlwaysIntersected(index, query_words, tags) ==
    IF tags = {} THEN _search_by_keywords(index, query_words)
    ELSE _search_by_keywords(index, query_words) \cap _search_by_tags(index, tags)

\* search_conversations, steps 1 and 2: the candidate ids.
Candidates(index, query_words, tags) ==
    LET candidate_ids == _search_by_keywords(index, query_words)
        tag_ids == _search_by_tags(index, tags)
    IN IF tags = {} THEN candidate_ids
       ELSE IF candidate_ids # {} THEN candidate_ids \cap tag_ids
       ELSE tag_ids

\* search_conversations, step 3: the candidates that have metadata and pass
\* the filters; "" and 0 are the filters that were not given.
PassesFilters(metadata, category, importance_min, time_range) ==
    /\ category = "" \/ metadata.category = category
    /\ importance_min = 0 \/ metadata.importance >= importance_min
    /\ time_range = "" \/ _matches_time_range(metadata, time_range)

Survivors(index, a) ==
    {i \in Candidates(index, _tokenize_query(a.query), a.tags) :
        /\ i \in DOMAIN index.metadata_index
        /\ PassesFilters(index.metadata_index[i], a.category, a.importance_min, a.time_range)}

MatchScore(index, a, i) ==
    Round3(_calculate_relevance_score(index.metadata_index[i], _tokenize_query(a.query), a.tags))

\* The orders list.sort(key=match_score, reverse=True) can leave the survivors
\* in: the candidates come out of a set in any order and the sort is stable.
SortedByScore(index, a) ==
    LET S == Survivors(index, a)
    IN {s \in [1..Cardinality(S) -> S] :
          /\ \A i, j \in DOMAIN s : i # j => s[i] # s[j]
          /\ \A i, j \in DOMAIN s : i < j => MatchScore(index, a, s[i]) >= MatchScore(index, a, s[j])}

\* A truncation that keeps the end of the sorted list: filtered_results[-limit:].
TruncatedFromTheEnd(index, a, sorted) ==
    LET n == IF Len(sorted) < a.limit THEN Len(sorted) ELSE a.limit
    IN [k \in 1..n |->
           [id |-> sorted[Len(sorted) - n + k],
            match_score |-> MatchScore(index, a, sorted[Len(sorted) - n + k])]]

\* filtered_results[:limit], each result with its id and match_score.
Truncated(index, a, sorted) ==
    [k \in 1..(IF Len(sorted) < a.limit THEN Len(sorted) ELSE a.limit) |->
        [id |-> sorted[k], match_score |-> MatchScore(index, a, sorted[k])]]

\* The arguments the searches are made with.
Queries == {c.title : c \in ConvContents} \cup {<<"leak">>, <<"nothing">>}

SearchArgs ==
    {[query |-> q, tags |-> t, category |-> f.category, importance_min |-> f.importance_min,
      time_range |-> f.time_range, limit |-> l] :
        q \in Queries, t \in {{}, {"Python"}}, l \in 1..MaxLimit,
        f \in {[category |-> "", importance_min |-> 0, time_range |-> ""],
               [category |-> "zh:debugging", importance_min |-> 0, time_range |-> "month"],
               [category |-> "", importance_min |-> 3, time_range |-> "week"]}}

\* -------------------------------------------------------- listing: data
\* The dates of the listing: (year, month, day).  A conversation created on
\* date d is stored as conversations/{d.year}/{d.month:02d}/{id}.json.
NumListIds == 2
MaxListLimit == 2
ListIds == 1..NumListIds
ListYears == {2024, 2025}
ListMonths == {1, 2}
ListDays == {1, 20}
ListDirs == ListYears \X ListMonths
ListFiles == ListDirs \X ListIds
Dates == ListYears \X ListMonths \X ListDays
NoDate == <<0, 0, 0>>

\* date <= date
DateLE(a, b) ==
    \/ a[1] < b[1]
    \/ a[1] = b[1] /\ a[2] < b[2]
    \/ a[1] = b[1] /\ a[2] = b[2] /\ a[3] <= b[3]

\* sorted(..., reverse=True) of the year directories and, within a year, of
\* the month directories: is directory a before directory b.
NewerDir(a, b) == a[1] > b[1] \/ (a[1] = b[1] /\ a[2] > b[2])

\* The files in the order the three loops visit them: directories newest
\* first, and in a directory the file names in reverse order.
Visited(f, g) == NewerDir(f[1], g[1]) \/ (f[1] = g[1] /\ f[2] > g[2])

RECURSIVE InVisitOrder(_)
InVisitOrder(S) ==
    IF S = {} THEN <<>>
    ELSE LET f == CHOOSE x \in S : \A y \in S \ {x} : Visited(x, y)
         IN <<f>> \o InVisitOrder(S \ {f})

\* The date filter of list_conversations: the first day of the directory's
\* month is compared with start_date and end_date.
DirInRange(dir, start_date, end_date) ==
    LET current_date == <<dir[1], dir[2], 1>>
    IN /\ start_date = NoDate \/ DateLE(start_date, current_date)
       /\ end_date = NoDate \/ DateLE(current_date, end_date)

\* `if limit and len(conversation_ids) >= limit: return`, after each append:
\* a limit of None and a limit of 0 never stop the loops.
RECURSIVE TakeUntilLimit(_, _, _)
TakeUntilLimit(conversation_ids, rest, limit) ==
    IF rest = <<>> THEN conversation_ids
    ELSE IF limit.given /\ limit.n # 0 /\ Len(conversation_ids) + 1 >= limit.n
         THEN Append(conversation_ids, Head(rest))
         ELSE TakeUntilLimit(Append(conversation_ids, Head(rest)), Tail(rest), limit)

NoLimit == [given |-> FALSE, n |-> 0]
ListLimits == {NoLimit} \cup {[given |-> TRUE, n |-> n] : n \in 0..MaxListLimit}

\* ------------------------------------------------------ solutions: data
\* The solutions of the model.  The ids the default factory makes are
\* sol_xxxxxxxx; the last id stands for an id chosen by the caller that does
\* not begin with sol_.
NumSolIds == 2
MaxRefs == 1
MaxBatchFiles == 1
MaxBatchLen == 2

SolIds == 1..NumSolIds

\* What the pattern sol_*.json matches.
startswith_sol(id) == id < NumSolIds

\* The Solution objects a caller can construct: id, reference_count, type,
\* language and last_referenced ("none" is None).  validate_language runs on
\* a language that is passed and not on the field default, so a code solution
\* built without a language is a Solution.
Solutions ==
    {[id |-> i, reference_count |-> n, type |-> tl[1], language |-> tl[2], last_referenced |-> "none"] :
        i \in SolIds, n \in 0..MaxRefs,
        tl \in {<<"code", "python">>, <<"code", "none">>, <<"approach", "none">>}}

\* The result of a call that raised or found nothing.
NoSolution == [kind |-> "none"]

\* json.load and Solution.from_dict on a solution document: cls(**data)
\* passes every field of the document, language too, so validate_language
\* runs; the callers turn the exception it raises into None.
SolutionOrNone(data) ==
    IF validate_language(data.type, data.language) = "raise" THEN NoSolution
    ELSE SolutionFromDict(data)

\* Solution.increment_reference
increment_reference(solution) ==
    [solution EXCEPT !.reference_count = @ + 1, !.last_referenced = "now"]

\* The batch files extracted_{type}_solutions_{timestamp}.json an earlier
\* extraction left: each holds a list "solutions" of solution documents.
Batches == UNION {[1..n -> {s \in Solutions : s.type = "approach"}] : n \in 0..MaxBatchLen}
BatchDirs == UNION {[1..n -> Batches] : n \in 0..MaxBatchFiles}

RECURSIVE Flatten(_)
Flatten(batches) ==
    IF batches = <<>> THEN <<>> ELSE Head(batches) \o Flatten(Tail(batches))

\* load_all_solutions, the last step: keep the first solution of each id, and
\* replace it by a later one of the same id that has a higher reference_count.
RECURSIVE Deduplicate(_, _)
Deduplicate(unique_solutions, solutions) ==
    IF solutions = <<>> THEN unique_solutions
    ELSE LET solution == solutions[1]
             at == {k \in DOMAIN unique_solutions : unique_solutions[k].id = solution.id}
         IN Deduplicate(
               IF at = {} THEN Append(unique_solutions, solution)
               ELSE [k \in DOMAIN unique_solutions |->
                       IF k \in at /\ solution.reference_count > unique_solutions[k].reference_count
                       THEN solution ELSE unique_solutions[k]],
               Tail(solutions))

\* ------------------------------------------------------------- state
\* ---------------------------------------------- export_data, import_data
NumImportFiles == 1
ImportFiles == 1..NumImportFiles

\* The subtrees export_data and import_data copy, in the order of the code.
Subtrees == <<"conversations", "solutions", "indexes">>
SubtreeNames == {Subtrees[k] : k \in DOMAIN Subtrees}

\* A directory tree: whether the directory exists, and the content of each
\* file in it ("none": no such file).
NoDir == [exists |-> FALSE, files |-> [f \in ImportFiles |-> "none"]]
Trees(content) ==
    {NoDir} \cup {[exists |-> TRUE, files |-> g] : g \in [ImportFiles -> {"none", content}]}

\* shutil.copytree(src, dst, dirs_exist_ok=True): dst is created if need be,
\* every file of src replaces the file of that name, the others stay.
copytree_keeping(src, dst) ==
    [exists |-> TRUE,
     files |-> [f \in ImportFiles |-> IF dst.files[f] # "none" THEN dst.files[f] ELSE src.files[f]]]

copytree(src, dst) ==
    [exists |-> TRUE,
     files |-> [f \in ImportFiles |-> IF src.files[f] # "none" THEN src.files[f] ELSE dst.files[f]]]

\* What a copytree that raises can leave: nothing done, or the directory
\* with some of the files copied.
PartOf(src) ==
    {[exists |-> TRUE, files |-> g] :
        g \in {h \in [ImportFiles -> {"none", "old", "new"}] :
                  /\ \A f \in ImportFiles : h[f] \in {"none", src.files[f]}
                  /\ h # src.files}}
CopytreeRaised(src, dst) == {dst} \cup {copytree(part, dst) : part \in PartOf(src)}

\* What a rmtree that raises can leave: the directory with some files gone.
RmtreeRaised(dst) ==
    {[exists |-> TRUE, files |-> g] :
        g \in {h \in [ImportFiles -> {"none", "old", "new"}] :
                  \A f \in ImportFiles : h[f] \in {"none", dst.files[f]}}}

NoData == [n \in SubtreeNames |-> NoDir]
\* import_path does not exist.
NoImportPath == [exists |-> FALSE, dirs |-> NoData]
ImportPaths ==
    {NoImportPath} \cup {[exists |-> TRUE, dirs |-> d] : d \in [SubtreeNames -> Trees("new")]}

IdleImport ==
    [pc |-> "idle", merge_mode |-> "append", k |-> 0, removed |-> FALSE, ts |-> 0,
     before |-> NoData, backup_success |-> FALSE, ret |-> FALSE]

\* The step after subtree k of an import: the next subtree, or return True.
AfterSubtree(o) ==
    IF o.k = Len(Subtrees)
        THEN [o EXCEPT !.pc = "done", !.ret = TRUE, !.removed = FALSE]
        ELSE [o EXCEPT !.k = o.k + 1, !.removed = FALSE]

\* ------------------------------------------------------- cleanup_backups
\* Time in days for the retention of backups; the names of the backup files.
MaxDay == 2
NumBackupFiles == 3
MaxAgeDays == 1
Days == 0..MaxDay
BackupFileIds == 1..NumBackupFiles

\* A file of backups/ matching *_backup_*: the day _create_backup made it and
\* its st_mtime; or no such file.
NoBackupFile == [exists |-> FALSE, taken |-> 0, mtime |-> 0]
BackupFile(taken, mtime) == [exists |-> TRUE, taken |-> taken, mtime |-> mtime]

\* The history of a cleanup: its arguments, the day, the backup files before
\* and after it, and the number returned.
NoCleanup ==
    [kind |-> "none", max_age_days |-> 0, max_count |-> 0, at |-> 0,
     pre |-> [b \in BackupFileIds |-> NoBackupFile], post |-> [b \in BackupFileIds |-> NoBackupFile], ret |-> 0]

\* No update_conversation is between its two steps.
NoUpdate == [pc |-> "idle", rec |-> NoRecord]

VARIABLES
    unixTs,     \* int(time.time()): the current second
    files,      \* conversations/: path -> content
    backups,    \* backups/: backup name -> content
    orphans,    \* target paths whose directory holds a temp file nobody owns
    instOf,     \* party -> the FileManager instance (process) it runs in
    osName,     \* os.name
    fileLocks,  \* FileManager._file_locks: <<instance, path>> -> holder, 0 free
    osLocks,    \* advisory locks held: <<party, path, "SH" | "EX">>
    dead,       \* instances whose process has crashed
    op,         \* party -> the operation it is in, and where
    lastSaved,  \* history: id -> what the last undisturbed save or delete left
    opsLeft,    \* operations that may still be started
    faults,     \* I/O failures and crashes that may still happen
    convs,      \* conversations/ as load_conversation sees it: id -> record
    bak,        \* backups/ of the call-by-call store: the documents copied
    idxMem,     \* SearchIndexer._current_index of each indexer
    idxFile,    \* indexes/search_index.json
    solFiles,   \* solutions/{id}.json: id -> solution document
    batchFiles, \* solutions/extracted_*_solutions_*.json, in glob order
    last,       \* history: the last call of the call-by-call operations
    refOp,     \* party -> what its update_solution_reference_count has loaded
    tree,      \* conversations/YYYY/MM/{id}.json of the listing: file -> day of created_at, 0 none
    dataDirs,  \* conversations/, solutions/, indexes/ as import_data sees them: name -> tree
    importPath, \* the directory import_data reads
    preImport, \* backups/pre_import_{second}: second -> name -> tree
    impOp,     \* the import_data call in progress, and where
    bkDir,     \* backups/*_backup_*: file -> when taken, st_mtime
    today,     \* time.time() of cleanup_backups, in days
    cleaned,   \* history: the last cleanup_backups call
    lockMutex, \* FileManager._lock_mutex of each instance: holder, 0 free
    updOp      \* indexer -> the update_conversation it is in, between remove and add

clock == <<unixTs>>

\* datetime.now().date(): the current month
now == MonthOf(unixTs)
procs == <<instOf, osName, dead>>
locks == <<fileLocks, osLocks>>
\* The state of the operations that follow.
refs == <<refOp>>
listing == <<tree>>
updating == <<updOp>>
guard == <<lockMutex>>
retention == <<bkDir, today, cleaned>>
importing == <<dataDirs, importPath, preImport, impOp>>
annex == <<refs, listing, importing, retention, guard, updating>>
besidesRefs == <<listing, importing, retention, guard, updating>>
besidesListing == <<refs, importing, retention, guard, updating>>
besidesImporting == <<refs, listing, retention, guard, updating>>
besidesRetention == <<refs, listing, importing, guard, updating>>
besidesGuard == <<refs, listing, importing, retention, updating>>
besidesUpdating == <<refs, listing, importing, retention, guard>>
indexStore == <<convs, bak, idxMem, idxFile, solFiles, batchFiles>>
catalog == <<convs, bak, idxMem, idxFile, solFiles, batchFiles, last, annex>>
fileStore == <<unixTs, files, backups, orphans, instOf, osName, fileLocks, osLocks, dead, op, lastSaved, faults>>
vars == <<unixTs, files, backups, orphans, instOf, osName, fileLocks, osLocks, dead, op, lastSaved, opsLeft, faults,
          convs, bak, idxMem, idxFile, solFiles, batchFiles, last, refOp, tree, dataDirs, importPath, preImport, impOp, bkDir, today, cleaned, lockMutex, updOp>>

IdleOp ==
    [kind |-> "idle", pc |-> "idle", id |-> 0, rec |-> NoRecord, path |-> NoPath,
     mode |-> "r", searchAll |-> FALSE, bi |-> NoBackup, tmp |-> ABSENT,
     tmpKnown |-> FALSE, fd |-> "none", snap |-> ABSENT, loaded |-> NoRecord,
     ret |-> "none",
     \* history of the call, for the properties
     pre |-> ABSENT, disturbed |-> FALSE, failedAt |-> "none", cause |-> "none",
     expect |-> NoRecord, backedUp |-> FALSE, seen |-> ABSENT, torn |-> FALSE,
     today |-> 0, backupFailed |-> FALSE]

NoArgs == [query |-> <<>>, tags |-> {}, category |-> "", importance_min |-> 0, time_range |-> "", limit |-> 0]

NoCall ==
    [kind |-> "none", by |-> "", id |-> 0, rec |-> NoRecord, args |-> NoArgs,
     pre |-> NoIndex, result |-> <<>>, ret |-> FALSE]

\* A data directory with no conversation, no solution and no index file, and
\* two indexers that have not loaded the index.
InitCatalog ==
    /\ convs = [i \in ConvIds |-> NoRecord]
    /\ bak = {}
    /\ idxMem = [x \in Indexers |-> NoIndex]
    /\ idxFile = ABSENT
    /\ solFiles = [i \in SolIds |-> ABSENT]
    /\ batchFiles = <<>>
    /\ last = NoCall
    /\ refOp = [p \in Parties |-> NoSolution]
    /\ tree = [f \in ListFiles |-> 0]
    /\ dataDirs = NoData
    /\ importPath = NoImportPath
    /\ preImport = [t \in 0..MaxTs |-> NoData]
    /\ impOp = IdleImport
    /\ bkDir = [b \in BackupFileIds |-> NoBackupFile]
    /\ today = 0
    /\ cleaned = NoCleanup
    /\ lockMutex = [i \in Instances |-> 0]
    /\ updOp = [x \in Indexers |-> NoUpdate]

InitStore ==
    /\ unixTs = 0
    /\ backups = [b \in BackupNames |-> ABSENT]
    /\ orphans = {}
    /\ fileLocks = [k \in Instances \X Paths |-> 0]
    /\ osLocks = {}
    /\ dead = {}
    /\ op = [p \in Parties |-> IdleOp]
    /\ opsLeft = MaxOps
    /\ faults = MaxFaults

\* Every party is a server process of its own, on a POSIX system.
Init ==
    /\ InitStore
    /\ files = [p \in Paths |-> ABSENT]
    /\ lastSaved = [i \in Ids |-> NoRecord]
    /\ instOf = [p \in Parties |-> p]
    /\ osName = "posix"
    /\ InitCatalog

exists(path) == files[path] # ABSENT

Alive(p) == instOf[p] \notin dead

\* A party makes its next call when the last one has returned.
Free(p) == Alive(p) /\ op[p].pc \in {"idle", "done"}

At(p, kinds, pc) == Alive(p) /\ op[p].kind \in kinds /\ op[p].pc = pc

InFlight(q) == op[q].pc \notin {"idle", "done", "crashed"}

Mutating(q) == op[q].kind \in {"save", "delete"}

\* An I/O call raises, or the process dies: one of the failures still allowed.
Fault == faults > 0 /\ faults' = faults - 1

\* op after party p starts the operation o: a mutating operation marks every
\* other operation on the same id as disturbed.
StartOp(p, o) ==
    [q \in Parties |->
        IF q = p
        THEN [o EXCEPT !.disturbed = \E r \in Parties \ {p} : InFlight(r) /\ Mutating(r) /\ op[r].id = o.id]
        ELSE IF o.kind \in {"save", "delete"} /\ op[q].id = o.id
        THEN [op[q] EXCEPT !.disturbed = TRUE]
        ELSE op[q]]

\* A rename onto path, or an unlink of it, leaves the descriptors that are
\* open on it on the old inode, with the content it had.
Detach(o, path) ==
    IF o.fd = "live" /\ o.path = path
    THEN [o EXCEPT !.fd = "frozen", !.snap = files[path]]
    ELSE o

\* --------------------------------------------- save_conversation
\* save_conversation(conversation): the path from created_at, to_dict.
SaveCall(p, r) ==
    /\ Free(p) /\ opsLeft > 0
    /\ LET path == _get_conversation_file_path(r.id, r.created_at)
       IN op' = StartOp(p, [IdleOp EXCEPT !.kind = "save", !.pc = "aw_exists", !.id = r.id,
                                          !.rec = r, !.path = path, !.pre = files[path]])
    /\ lastSaved' = [lastSaved EXCEPT ![r.id] = NoRecord]
    /\ opsLeft' = opsLeft - 1
    /\ UNCHANGED <<catalog, clock, files, backups, orphans, procs, locks, faults>>

\* _atomic_write_json: if backup and file_path.exists()
AwExists(p) ==
    /\ At(p, {"save"}, "aw_exists")
    /\ op' = [op EXCEPT ![p].pc = IF exists(op[p].path) THEN "aw_backup" ELSE "aw_temp"]
    /\ UNCHANGED <<catalog, clock, files, backups, orphans, procs, locks, lastSaved, opsLeft, faults>>

\* _create_backup(file_path): None when the file is gone; shutil.copy2 to
\* backups/{stem}_backup_{int(time.time())}{suffix}; None when the copy fails,
\* which may leave a truncated backup file behind.
BackupOk(p, next) ==
    /\ exists(op[p].path)
    /\ backups' = [backups EXCEPT ![BackupName(op[p].path, unixTs)] = files[op[p].path]]
    /\ op' = [op EXCEPT ![p].pc = next, ![p].bi = BackupName(op[p].path, unixTs), ![p].backedUp = TRUE]
    /\ UNCHANGED faults

BackupGone(p, next) ==
    /\ ~exists(op[p].path)
    /\ op' = [op EXCEPT ![p].pc = next]
    /\ UNCHANGED <<backups, faults>>

\* A backup whose failure is raised to the caller, which then gives up.
BackupFailsAndAborts(p, next) ==
    /\ Fault
    /\ exists(op[p].path)
    /\ \E left \in {backups[BackupName(op[p].path, unixTs)], PARTIAL} :
          backups' = [backups EXCEPT ![BackupName(op[p].path, unixTs)] = left]
    /\ op' = [op EXCEPT ![p].pc = "done", ![p].ret = "false", ![p].backupFailed = TRUE]

BackupFails(p, next) ==
    /\ Fault
    /\ exists(op[p].path)
    /\ \E left \in {backups[BackupName(op[p].path, unixTs)], PARTIAL} :
          backups' = [backups EXCEPT ![BackupName(op[p].path, unixTs)] = left]
    /\ op' = [op EXCEPT ![p].pc = next, ![p].backupFailed = TRUE]

_create_backup(p, next) ==
    \/ BackupOk(p, next)
    \/ BackupGone(p, next)
    \/ BackupFails(p, next)

AwBackup(p) ==
    /\ At(p, {"save"}, "aw_backup")
    /\ _create_backup(p, "aw_temp")
    /\ UNCHANGED <<catalog, clock, files, orphans, procs, locks, lastSaved, opsLeft>>

\* After the except clause is entered: restore when a backup was taken.
AfterFailure(o) == IF o.bi # NoBackup THEN "aw_restore" ELSE "aw_cleanup"

\* tempfile.NamedTemporaryFile(dir=file_path.parent, delete=False), json.dump,
\* flush, os.fsync, temp_path = Path(temp_file.name).
AwTempOk(p) ==
    /\ At(p, {"save"}, "aw_temp")
    /\ op' = [op EXCEPT ![p].pc = "aw_rename", ![p].tmp = to_dict(op[p].rec), ![p].tmpKnown = TRUE]
    /\ UNCHANGED <<catalog, clock, files, backups, orphans, procs, locks, lastSaved, opsLeft, faults>>

\* NamedTemporaryFile raises: no temp file was made.
AwTempCreateFails(p) ==
    /\ At(p, {"save"}, "aw_temp")
    /\ Fault
    /\ op' = [op EXCEPT ![p].pc = AfterFailure(op[p]), ![p].failedAt = "temp"]
    /\ UNCHANGED <<catalog, clock, files, backups, orphans, procs, locks, lastSaved, opsLeft>>

\* json.dump, flush or fsync raises: the temp file exists, and temp_path is
\* not bound yet.
AwTempWriteFails(p) ==
    /\ At(p, {"save"}, "aw_temp")
    /\ Fault
    /\ op' = [op EXCEPT ![p].pc = AfterFailure(op[p]), ![p].failedAt = "temp", ![p].tmp = PARTIAL]
    /\ UNCHANGED <<catalog, clock, files, backups, orphans, procs, locks, lastSaved, opsLeft>>

\* temp_path.replace(file_path): the atomic rename; return True.
AwRenameOk(p) ==
    /\ At(p, {"save"}, "aw_rename")
    /\ files' = [files EXCEPT ![op[p].path] = op[p].tmp]
    /\ op' = [q \in Parties |->
                IF q = p THEN [op[p] EXCEPT !.pc = "done", !.ret = "true", !.tmp = ABSENT]
                ELSE Detach(op[q], op[p].path)]
    /\ lastSaved' = IF op[p].disturbed THEN lastSaved
                    ELSE [lastSaved EXCEPT ![op[p].id] = op[p].rec]
    /\ UNCHANGED <<catalog, clock, backups, orphans, procs, locks, opsLeft, faults>>

AwRenameFails(p) ==
    /\ At(p, {"save"}, "aw_rename")
    /\ Fault
    /\ op' = [op EXCEPT ![p].pc = AfterFailure(op[p]), ![p].failedAt = "rename"]
    /\ UNCHANGED <<catalog, clock, files, backups, orphans, procs, locks, lastSaved, opsLeft>>

\* _restore_from_backup: shutil.copy2(backup_path, original_path) opens the
\* original for writing, which truncates it, and then copies the bytes.
\* An absent backup (if backup_path.exists() is false) leaves the original.
AwRestoreOpen(p) ==
    /\ At(p, {"save"}, "aw_restore")
    /\ files' = IF backups[op[p].bi] = ABSENT THEN files ELSE [files EXCEPT ![op[p].path] = PARTIAL]
    /\ op' = [op EXCEPT ![p].pc = IF backups[op[p].bi] = ABSENT THEN "aw_cleanup" ELSE "aw_restore_copy"]
    /\ UNCHANGED <<catalog, clock, backups, orphans, procs, locks, lastSaved, opsLeft, faults>>

\* copy2 raises before it opens the original: nothing is touched.
AwRestoreOpenFails(p) ==
    /\ At(p, {"save"}, "aw_restore")
    /\ backups[op[p].bi] # ABSENT
    /\ Fault
    /\ op' = [op EXCEPT ![p].pc = "aw_cleanup"]
    /\ UNCHANGED <<catalog, clock, files, backups, orphans, procs, locks, lastSaved, opsLeft>>

AwRestoreCopy(p) ==
    /\ At(p, {"save"}, "aw_restore_copy")
    /\ files' = [files EXCEPT ![op[p].path] = backups[op[p].bi]]
    /\ op' = [op EXCEPT ![p].pc = "aw_cleanup"]
    /\ UNCHANGED <<catalog, clock, backups, orphans, procs, locks, lastSaved, opsLeft, faults>>

\* copy2 raises while it copies: the original stays truncated.
AwRestoreCopyFails(p) ==
    /\ At(p, {"save"}, "aw_restore_copy")
    /\ Fault
    /\ op' = [op EXCEPT ![p].pc = "aw_cleanup"]
    /\ UNCHANGED <<catalog, clock, files, backups, orphans, procs, locks, lastSaved, opsLeft>>

\* if 'temp_path' in locals() and temp_path.exists(): temp_path.unlink();
\* return False.
AwCleanup(p) ==
    /\ At(p, {"save"}, "aw_cleanup")
    /\ orphans' = IF op[p].tmp # ABSENT /\ ~op[p].tmpKnown THEN orphans \cup {op[p].path} ELSE orphans
    /\ op' = [op EXCEPT ![p].pc = "done", ![p].ret = "false", ![p].tmp = ABSENT]
    /\ UNCHANGED <<catalog, clock, files, backups, procs, locks, lastSaved, opsLeft, faults>>

\* ------------------------------------------------- load_conversation
\* What an operation that loads comes to when the load is over without a
\* record: load_conversation returns None, delete_conversation returns False,
\* and a bare use of the lock sees the exception.
LoadFailed(o, why) ==
    [o EXCEPT !.pc = "done", !.cause = why, !.fd = "none",
              !.ret = IF o.kind = "load" THEN "absent"
                      ELSE IF o.kind = "delete" THEN "false"
                      ELSE why]

LoadCall(p, id, all) ==
    /\ Free(p) /\ opsLeft > 0
    /\ op' = StartOp(p, [IdleOp EXCEPT !.kind = "load", !.pc = "ld_find", !.id = id,
                                       !.searchAll = all, !.expect = lastSaved[id]])
    /\ opsLeft' = opsLeft - 1
    /\ UNCHANGED <<catalog, clock, files, backups, orphans, procs, locks, lastSaved, faults>>

\* file_path = self._get_conversation_file_path(conversation_id), the path
\* for today's date; if file_path.exists(): load it.
LdFindToday(p) ==
    /\ At(p, {"load", "delete"}, "ld_find")
    /\ exists(_get_conversation_file_path(op[p].id, now))
    /\ op' = [op EXCEPT ![p].pc = "fl_acquire", ![p].today = now,
                         ![p].path = _get_conversation_file_path(op[p].id, now)]
    /\ UNCHANGED <<catalog, clock, files, backups, orphans, procs, locks, lastSaved, opsLeft, faults>>

\* if search_all_dates: the first candidate that exists, in the order iterdir
\* yields the year and month directories (any order).
LdFindScan(p) ==
    /\ At(p, {"load", "delete"}, "ld_find")
    /\ ~exists(_get_conversation_file_path(op[p].id, now))
    /\ op[p].searchAll
    /\ \E m \in Months :
          /\ exists(<<op[p].id, m>>)
          /\ op' = [op EXCEPT ![p].pc = "fl_acquire", ![p].today = now, ![p].path = <<op[p].id, m>>]
    /\ UNCHANGED <<catalog, clock, files, backups, orphans, procs, locks, lastSaved, opsLeft, faults>>

LdFindNone(p) ==
    /\ At(p, {"load", "delete"}, "ld_find")
    /\ ~exists(_get_conversation_file_path(op[p].id, now))
    /\ ~(op[p].searchAll /\ \E m \in Months : exists(<<op[p].id, m>>))
    /\ op' = [op EXCEPT ![p] = LoadFailed([op[p] EXCEPT !.today = now], "notfound")]
    /\ UNCHANGED <<catalog, clock, files, backups, orphans, procs, locks, lastSaved, opsLeft, faults>>

\* ---------------------------------------------------------- _file_lock
\* file_lock.acquire(timeout=self.lock_timeout) on the lock the instance's
\* table holds for the path: taken when it is free.
FlAcquire(p) ==
    /\ At(p, {"load", "delete", "lock"}, "fl_acquire")
    /\ fileLocks[<<instOf[p], op[p].path>>] = 0
    /\ fileLocks' = [fileLocks EXCEPT ![<<instOf[p], op[p].path>>] = p]
    /\ op' = [op EXCEPT ![p].pc = "fl_open"]
    /\ UNCHANGED <<catalog, clock, files, backups, orphans, procs, osLocks, lastSaved, opsLeft, faults>>

\* An acquisition that gives up when any path of the instance is locked.
FlAcquireTimeoutAnyPath(p) ==
    /\ At(p, {"load", "delete", "lock"}, "fl_acquire")
    /\ \E path \in Paths : fileLocks[<<instOf[p], path>>] # 0
    /\ op' = [op EXCEPT ![p] = LoadFailed(op[p], "TimeoutError")]
    /\ UNCHANGED <<catalog, clock, files, backups, orphans, procs, locks, lastSaved, opsLeft, faults>>

\* acquire returns False when the lock stayed held for lock_timeout seconds:
\* raise TimeoutError.
FlAcquireTimeout(p) ==
    /\ At(p, {"load", "delete", "lock"}, "fl_acquire")
    /\ fileLocks[<<instOf[p], op[p].path>>] # 0
    /\ op' = [op EXCEPT ![p] = LoadFailed(op[p], "TimeoutError")]
    /\ UNCHANGED <<catalog, clock, files, backups, orphans, procs, locks, lastSaved, opsLeft, faults>>

\* file_obj = open(file_path, mode): mode 'r' needs the file; mode 'a'
\* creates an empty one.  A failure releases the thread lock (outer finally).
FlOpen(p) ==
    /\ At(p, {"load", "delete", "lock"}, "fl_open")
    /\ exists(op[p].path) \/ op[p].mode # "r"
    /\ files' = IF exists(op[p].path) THEN files ELSE [files EXCEPT ![op[p].path] = PARTIAL]
    /\ op' = [op EXCEPT ![p].pc = "fl_flock", ![p].fd = "live"]
    /\ UNCHANGED <<catalog, clock, backups, orphans, procs, locks, lastSaved, opsLeft, faults>>

FlOpenFails(p) ==
    /\ At(p, {"load", "delete", "lock"}, "fl_open")
    /\ ~exists(op[p].path) /\ op[p].mode = "r"
    /\ fileLocks' = [fileLocks EXCEPT ![<<instOf[p], op[p].path>>] = 0]
    /\ op' = [op EXCEPT ![p] = LoadFailed(op[p], "FileNotFoundError")]
    /\ UNCHANGED <<catalog, clock, files, backups, orphans, procs, osLocks, lastSaved, opsLeft, faults>>

\* lock_type = LOCK_EX if 'w' in mode or 'a' in mode else LOCK_SH
LockType(mode) == IF mode = "r" THEN "SH" ELSE "EX"

\* flock: a shared lock is compatible with shared locks only; locks held
\* through other descriptors count, whichever process holds them.
Conflicts(p, path, type) ==
    \E l \in osLocks : l[1] # p /\ l[2] = path /\ (type = "EX" \/ l[3] = "EX")

\* fcntl.flock(file_obj.fileno(), lock_type | fcntl.LOCK_NB)
FlFlock(p) ==
    /\ At(p, {"load", "delete", "lock"}, "fl_flock")
    /\ osName = "posix"
    /\ ~Conflicts(p, op[p].path, LockType(op[p].mode))
    /\ osLocks' = osLocks \cup {<<p, op[p].path, LockType(op[p].mode)>>}
    /\ op' = [op EXCEPT ![p].pc = "fl_body"]
    /\ UNCHANGED <<catalog, clock, files, backups, orphans, procs, fileLocks, lastSaved, opsLeft, faults>>

\* An exit that unlocks and closes the file and keeps the thread lock.
UnlockedOnly(p) ==
    /\ osLocks' = {l \in osLocks : l[1] # p}
    /\ UNCHANGED fileLocks

\* The exit of the with block: LOCK_UN, close, file_lock.release().
Released(p) ==
    /\ osLocks' = {l \in osLocks : l[1] # p}
    /\ fileLocks' = [fileLocks EXCEPT ![<<instOf[p], op[p].path>>] = 0]

\* History: party p reads `seen` through a descriptor on the live file while
\* a write of that path, overlapped by no other write or delete, is under way,
\* and `seen` is neither what the file held when that write began nor what it
\* writes.
Torn(p, seen) ==
    /\ op[p].fd = "live"
    /\ \E q \in Parties \ {p} :
          /\ InFlight(q) /\ op[q].kind = "save" /\ ~op[q].disturbed
          /\ op[q].path = op[p].path
          /\ seen \notin {op[q].pre, to_dict(op[q].rec)}

\* data = json.load(f) inside the lock, then _fix_conversation_data and
\* ConversationRecord.from_dict; any exception gives None.
LdRead(p) ==
    /\ At(p, {"load", "delete"}, "fl_body")
    /\ Released(p)
    /\ LET seen == IF op[p].fd = "frozen" THEN op[p].snap ELSE files[op[p].path]
           rec == Decode(seen)
           o == [op[p] EXCEPT !.seen = seen, !.loaded = rec, !.fd = "none", !.snap = ABSENT,
                              !.torn = Torn(p, seen)]
       IN op' = [op EXCEPT ![p] =
                    IF rec = NoRecord THEN LoadFailed(o, "undecodable")
                    ELSE IF o.kind = "load" THEN [o EXCEPT !.pc = "done", !.ret = "record", !.cause = "ok"]
                    ELSE [o EXCEPT !.pc = "dl_exists",
                                   !.path = _get_conversation_file_path(o.id, rec.created_at)]]
    /\ UNCHANGED <<catalog, clock, files, backups, orphans, procs, lastSaved, opsLeft, faults>>

\* ----------------------------------------------- delete_conversation
\* conversation = self.load_conversation(conversation_id)
DeleteCall(p, id) ==
    /\ Free(p) /\ opsLeft > 0
    /\ op' = StartOp(p, [IdleOp EXCEPT !.kind = "delete", !.pc = "ld_find", !.id = id,
                                       !.searchAll = TRUE, !.expect = lastSaved[id],
                                       !.pre = files[<<id, CreatedMonth(id)>>]])
    /\ lastSaved' = [lastSaved EXCEPT ![id] = NoRecord]
    /\ opsLeft' = opsLeft - 1
    /\ UNCHANGED <<catalog, clock, files, backups, orphans, procs, locks, faults>>

\* if file_path.exists(): ... else: return False
DlExists(p) ==
    /\ At(p, {"delete"}, "dl_exists")
    /\ op' = [op EXCEPT ![p] = IF exists(op[p].path) THEN [op[p] EXCEPT !.pc = "dl_backup"]
                               ELSE [op[p] EXCEPT !.pc = "done", !.ret = "false"]]
    /\ UNCHANGED <<catalog, clock, files, backups, orphans, procs, locks, lastSaved, opsLeft, faults>>

\* backup_info = self._create_backup(file_path); the result is not looked at.
DlBackup(p) ==
    /\ At(p, {"delete"}, "dl_backup")
    /\ _create_backup(p, "dl_unlink")
    /\ UNCHANGED <<catalog, clock, files, orphans, procs, locks, lastSaved, opsLeft>>

\* file_path.unlink(); return True
DlUnlink(p) ==
    /\ At(p, {"delete"}, "dl_unlink")
    /\ exists(op[p].path)
    /\ files' = [files EXCEPT ![op[p].path] = ABSENT]
    /\ op' = [q \in Parties |->
                IF q = p THEN [op[p] EXCEPT !.pc = "done", !.ret = "true"]
                ELSE Detach(op[q], op[p].path)]
    /\ lastSaved' = IF op[p].disturbed THEN lastSaved
                    ELSE [lastSaved EXCEPT ![op[p].id] = Deleted]
    /\ UNCHANGED <<catalog, clock, backups, orphans, procs, locks, opsLeft, faults>>

\* unlink raises FileNotFoundError; except Exception: return False
DlUnlinkMissing(p) ==
    /\ At(p, {"delete"}, "dl_unlink")
    /\ ~exists(op[p].path)
    /\ op' = [op EXCEPT ![p].pc = "done", ![p].ret = "false"]
    /\ UNCHANGED <<catalog, clock, files, backups, orphans, procs, locks, lastSaved, opsLeft, faults>>

\* ------------------------------------------------------- environment
\* The process of instance i dies in the middle of an operation: its
\* operations stop where they are, the kernel drops its advisory locks, its
\* temp files stay.
Crash(i) ==
    /\ i \notin dead
    /\ \E p \in Parties : instOf[p] = i /\ InFlight(p)
    /\ Fault
    /\ dead' = dead \cup {i}
    /\ op' = [q \in Parties |->
                IF instOf[q] = i /\ InFlight(q)
                THEN [op[q] EXCEPT !.pc = "crashed", !.cause = op[q].pc, !.fd = "none"]
                ELSE op[q]]
    /\ orphans' = orphans \cup {op[q].path : q \in {r \in Parties : instOf[r] = i /\ op[r].tmp # ABSENT}}
    /\ osLocks' = {l \in osLocks : instOf[l[1]] # i}
    /\ fileLocks' = [k \in Instances \X Paths |-> IF k[1] = i THEN 0 ELSE fileLocks[k]]
    /\ UNCHANGED <<catalog, clock, files, backups, instOf, osName, lastSaved, opsLeft>>

\* Time passes.
TickSecond ==
    /\ unixTs < MaxTs
    /\ unixTs' = unixTs + 1
    /\ UNCHANGED <<catalog, files, backups, orphans, procs, locks, op, lastSaved, opsLeft, faults>>

Next ==
    \/ \E p \in Parties, r \in Records : SaveCall(p, r)
    \/ \E p \in Parties : AwExists(p)
    \/ \E p \in Parties : AwBackup(p)
    \/ \E p \in Parties : AwTempOk(p)
    \/ \E p \in Parties : AwTempCreateFails(p)
    \/ \E p \in Parties : AwTempWriteFails(p)
    \/ \E p \in Parties : AwRenameOk(p)
    \/ \E p \in Parties : AwRenameFails(p)
    \/ \E p \in Parties : AwRestoreOpen(p)
    \/ \E p \in Parties : AwRestoreOpenFails(p)
    \/ \E p \in Parties : AwRestoreCopy(p)
    \/ \E p \in Parties : AwRestoreCopyFails(p)
    \/ \E p \in Parties : AwCleanup(p)
    \/ \E p \in Parties, id \in Ids, all \in BOOLEAN : LoadCall(p, id, all)
    \/ \E p \in Parties : LdFindToday(p)
    \/ \E p \in Parties : LdFindScan(p)
    \/ \E p \in Parties : LdFindNone(p)
    \/ \E p \in Parties : FlAcquire(p)
    \/ \E p \in Parties : FlOpen(p)
    \/ \E p \in Parties : FlOpenFails(p)
    \/ \E p \in Parties : FlFlock(p)
    \/ \E p \in Parties : LdRead(p)
    \/ \E p \in Parties, id \in Ids : DeleteCall(p, id)
    \/ \E p \in Parties : DlExists(p)
    \/ \E p \in Parties : DlBackup(p)
    \/ \E p \in Parties : DlUnlink(p)
    \/ \E p \in Parties : DlUnlinkMissing(p)
    \/ \E i \in Instances : Crash(i)
    \/ TickSecond

Spec == Init /\ [][Next]_vars

\* ------------------------------------------------ the scoped file lock
\* The lock on its own: _file_lock(file_path, mode) in each of its modes, on
\* each platform, with parties that are threads of one instance or processes
\* of their own, beside the loads that use it.  FileManager itself only ever
\* passes mode 'r'.
LockModes == {"r", "a"}

LockCall(p, path, mode) ==
    /\ Free(p) /\ opsLeft > 0
    /\ op' = StartOp(p, [IdleOp EXCEPT !.kind = "lock", !.pc = "fl_acquire", !.id = path[1],
                                       !.path = path, !.mode = mode])
    /\ opsLeft' = opsLeft - 1
    /\ UNCHANGED <<catalog, clock, files, backups, orphans, procs, locks, lastSaved, faults>>

\* flock with LOCK_NB raises BlockingIOError at once when the lock is held;
\* the finally clauses unlock, close and release the thread lock.
FlFlockBlocked(p) ==
    /\ At(p, {"load", "delete", "lock"}, "fl_flock")
    /\ osName = "posix"
    /\ Conflicts(p, op[p].path, LockType(op[p].mode))
    /\ Released(p)
    /\ op' = [op EXCEPT ![p] = LoadFailed(op[p], "BlockingIOError")]
    /\ UNCHANGED <<catalog, clock, files, backups, orphans, procs, lastSaved, opsLeft, faults>>

\* msvcrt.locking(file_obj.fileno(), msvcrt.LK_NBLCK, 1): one byte, locked
\* exclusively whatever the mode, tried every 0.1 s for lock_timeout seconds.
FlNtLocking(p) ==
    /\ At(p, {"load", "delete", "lock"}, "fl_flock")
    /\ osName = "nt"
    /\ ~\E l \in osLocks : l[1] # p /\ l[2] = op[p].path
    /\ osLocks' = osLocks \cup {<<p, op[p].path, "EX">>}
    /\ op' = [op EXCEPT ![p].pc = "fl_body"]
    /\ UNCHANGED <<catalog, clock, files, backups, orphans, procs, fileLocks, lastSaved, opsLeft, faults>>

\* The while loop ends without a break: raise TimeoutError.
FlNtTimeout(p) ==
    /\ At(p, {"load", "delete", "lock"}, "fl_flock")
    /\ osName = "nt"
    /\ \E l \in osLocks : l[1] # p /\ l[2] = op[p].path
    /\ Released(p)
    /\ op' = [op EXCEPT ![p] = LoadFailed(op[p], "TimeoutError")]
    /\ UNCHANGED <<catalog, clock, files, backups, orphans, procs, lastSaved, opsLeft, faults>>

\* The body of a bare use of the lock ends.
LockExit(p) ==
    /\ At(p, {"lock"}, "fl_body")
    /\ Released(p)
    /\ op' = [op EXCEPT ![p].pc = "done", ![p].ret = "ok", ![p].cause = "ok", ![p].fd = "none"]
    /\ UNCHANGED <<catalog, clock, files, backups, orphans, procs, lastSaved, opsLeft, faults>>

\* A store that holds one saved conversation (the state a successful
\* save_conversation leaves); any platform, any placing of the parties in
\* instances.
InitLock ==
    /\ InitStore
    /\ \E r \in Records :
          /\ files = [p \in Paths |-> IF p = _get_conversation_file_path(r.id, r.created_at)
                                      THEN to_dict(r) ELSE ABSENT]
          /\ lastSaved = [i \in Ids |-> IF i = r.id THEN r ELSE NoRecord]
    /\ instOf \in {f \in [Parties -> Instances] : \A p \in Parties : f[p] <= p}
    /\ osName \in {"posix", "nt"}
    /\ InitCatalog

NextLock ==
    \/ \E p \in Parties, path \in Paths, mode \in LockModes : LockCall(p, path, mode)
    \/ \E p \in Parties, id \in Ids, all \in BOOLEAN : LoadCall(p, id, all)
    \/ \E p \in Parties : LdFindToday(p)
    \/ \E p \in Parties : LdFindScan(p)
    \/ \E p \in Parties : LdFindNone(p)
    \/ \E p \in Parties : FlAcquire(p)
    \/ \E p \in Parties : FlAcquireTimeout(p)
    \/ \E p \in Parties : FlOpen(p)
    \/ \E p \in Parties : FlOpenFails(p)
    \/ \E p \in Parties : FlFlock(p)
    \/ \E p \in Parties : FlFlockBlocked(p)
    \/ \E p \in Parties : FlNtLocking(p)
    \/ \E p \in Parties : FlNtTimeout(p)
    \/ \E p \in Parties : LdRead(p)
    \/ \E p \in Parties : LockExit(p)
    \/ TickSecond

SpecLock == InitLock /\ [][NextLock]_vars

\* ------------------------------------------- the store, call by call
\* The operations of FileManager as their callers see them when one call runs
\* at a time and no I/O call fails: convs is what load_conversation returns
\* for each id, bak the documents copied to backups/.
\* save_conversation(conversation).  A record keeps its created_at, so an id
\* that is stored is saved again into the same month directory.
save_conversation(conversation) ==
    /\ opsLeft > 0
    /\ IF convs[conversation.id] = NoRecord THEN TRUE
       ELSE convs[conversation.id].days_old = conversation.days_old
    /\ convs' = [convs EXCEPT ![conversation.id] = conversation]
    /\ bak' = IF convs[conversation.id] = NoRecord THEN bak ELSE bak \cup {convs[conversation.id]}
    /\ last' = [NoCall EXCEPT !.kind = "save_conversation", !.id = conversation.id,
                              !.rec = conversation, !.ret = TRUE]
    /\ opsLeft' = opsLeft - 1
    /\ UNCHANGED <<annex, fileStore, idxMem, idxFile, solFiles, batchFiles>>

\* A delete_conversation that also takes the id out of the index file.
DeleteConversationAndUnindex(conversation_id) ==
    /\ opsLeft > 0
    /\ convs' = [convs EXCEPT ![conversation_id] = NoRecord]
    /\ bak' = IF convs[conversation_id] = NoRecord THEN bak ELSE bak \cup {convs[conversation_id]}
    /\ idxFile' = IF idxFile # ABSENT /\ conversation_id \in DOMAIN idxFile.metadata_index
                  THEN IndexToDict(IndexWithout(IndexFromDict(idxFile), conversation_id))
                  ELSE idxFile
    /\ last' = [NoCall EXCEPT !.kind = "delete_conversation", !.id = conversation_id,
                              !.rec = convs[conversation_id],
                              !.ret = (convs[conversation_id] # NoRecord)]
    /\ opsLeft' = opsLeft - 1
    /\ UNCHANGED <<annex, fileStore, idxMem, solFiles, batchFiles>>

\* delete_conversation(conversation_id): False when load_conversation finds
\* nothing; else backup, unlink, True.
delete_conversation(conversation_id) ==
    /\ opsLeft > 0
    /\ convs' = [convs EXCEPT ![conversation_id] = NoRecord]
    /\ bak' = IF convs[conversation_id] = NoRecord THEN bak ELSE bak \cup {convs[conversation_id]}
    /\ last' = [NoCall EXCEPT !.kind = "delete_conversation", !.id = conversation_id,
                              !.rec = convs[conversation_id],
                              !.ret = (convs[conversation_id] # NoRecord)]
    /\ opsLeft' = opsLeft - 1
    /\ UNCHANGED <<annex, fileStore, idxMem, idxFile, solFiles, batchFiles>>

\* save_solution(solution): solutions/{solution.id}.json, after a backup of
\* the file that was there.
save_solution(solution) ==
    /\ opsLeft > 0
    /\ solFiles' = [solFiles EXCEPT ![solution.id] = solution]
    /\ bak' = IF solFiles[solution.id] = ABSENT THEN bak ELSE bak \cup {solFiles[solution.id]}
    /\ last' = [NoCall EXCEPT !.kind = "save_solution", !.id = solution.id, !.ret = TRUE]
    /\ opsLeft' = opsLeft - 1
    /\ UNCHANGED <<annex, fileStore, convs, idxMem, idxFile, batchFiles>>

\* list_conversations(): the stems of the json files that begin with conv_.
list_conversations == {i \in ConvIds : convs[i] # NoRecord /\ startswith_conv(i)}

\* ------------------------------------------------------- SearchIndexer
\* load_index(): the cached index when there is one; else the index file, or
\* a new SearchIndex() when there is no file.
load_index(x) ==
    IF idxMem[x] # NoIndex THEN idxMem[x]
    ELSE IF idxFile \notin {ABSENT, PARTIAL} THEN IndexFromDict(idxFile)
    ELSE SearchIndex

\* The call leaves `index` as the cached index of x and, when saved, as the
\* content of indexes/search_index.json (save_index).
Cached(x, index) == idxMem' = [idxMem EXCEPT ![x] = index]

save_index(index) == idxFile' = IndexToDict(index)

add_conversation(x, conversation) ==
    /\ opsLeft > 0
    /\ LET index == load_index(x)
       IN /\ Cached(x, IndexWith(index, conversation))
          /\ save_index(IndexWith(index, conversation))
          /\ last' = [NoCall EXCEPT !.kind = "add", !.by = x, !.id = conversation.id,
                                    !.rec = conversation, !.pre = index, !.ret = TRUE]
    /\ opsLeft' = opsLeft - 1
    /\ UNCHANGED <<annex, fileStore, convs, bak, solFiles, batchFiles>>

\* remove_conversation(conversation_id): False, and nothing saved, for an id
\* without metadata.
remove_conversation(x, conversation_id) ==
    /\ opsLeft > 0
    /\ LET index == load_index(x)
           found == conversation_id \in DOMAIN index.metadata_index
       IN /\ Cached(x, IF found THEN IndexWithout(index, conversation_id) ELSE index)
          /\ IF found THEN save_index(IndexWithout(index, conversation_id)) ELSE UNCHANGED idxFile
          /\ last' = [NoCall EXCEPT !.kind = "remove", !.by = x, !.id = conversation_id,
                                    !.pre = index, !.ret = found]
    /\ opsLeft' = opsLeft - 1
    /\ UNCHANGED <<annex, fileStore, convs, bak, solFiles, batchFiles>>

\* update_conversation(conversation): remove_conversation, whose result is not
\* looked at, then add_conversation.
update_conversation(x, conversation) ==
    /\ opsLeft > 0
    /\ LET index == load_index(x)
           removed == IF conversation.id \in DOMAIN index.metadata_index
                      THEN IndexWithout(index, conversation.id) ELSE index
       IN /\ Cached(x, IndexWith(removed, conversation))
          /\ save_index(IndexWith(removed, conversation))
          /\ last' = [NoCall EXCEPT !.kind = "update", !.by = x, !.id = conversation.id,
                                    !.rec = conversation, !.pre = index, !.ret = TRUE]
    /\ opsLeft' = opsLeft - 1
    /\ UNCHANGED <<annex, fileStore, convs, bak, solFiles, batchFiles>>

\* search_conversations(query, tags, category, time_range, importance_min, limit)
search_conversations(x, a) ==
    /\ opsLeft > 0
    /\ LET index == load_index(x)
       IN /\ Cached(x, index)
          /\ \E sorted \in SortedByScore(index, a) :
                last' = [NoCall EXCEPT !.kind = "search", !.by = x, !.args = a, !.pre = index,
                                       !.result = Truncated(index, a, sorted), !.ret = TRUE]
    /\ opsLeft' = opsLeft - 1
    /\ UNCHANGED <<annex, fileStore, convs, bak, idxFile, solFiles, batchFiles>>

\* rebuild_index(file_manager): a new SearchIndex() filled from every listed
\* conversation that load_conversation returns.
RECURSIVE IndexOfAll(_, _)
IndexOfAll(index, ids) ==
    IF ids = {} THEN index
    ELSE LET i == CHOOSE i \in ids : TRUE
         IN IndexOfAll(IF convs[i] # NoRecord THEN IndexWith(index, convs[i]) ELSE index, ids \ {i})

rebuild_index(x) ==
    /\ opsLeft > 0
    /\ Cached(x, IndexOfAll(SearchIndex, list_conversations))
    /\ save_index(IndexOfAll(SearchIndex, list_conversations))
    /\ last' = [NoCall EXCEPT !.kind = "rebuild", !.by = x, !.pre = idxMem[x], !.ret = TRUE]
    /\ opsLeft' = opsLeft - 1
    /\ UNCHANGED <<annex, fileStore, convs, bak, solFiles, batchFiles>>

NextIndex ==
    \/ \E r \in Conversations : save_conversation(r)
    \/ \E i \in ConvIds : delete_conversation(i)
    \/ \E s \in Solutions : save_solution(s)
    \/ \E x \in Indexers, r \in Conversations : add_conversation(x, r)
    \/ \E x \in Indexers, i \in ConvIds : remove_conversation(x, i)
    \/ \E x \in Indexers, r \in Conversations : update_conversation(x, r)
    \/ \E x \in Indexers, a \in SearchArgs : search_conversations(x, a)
    \/ \E x \in Indexers : rebuild_index(x)

SpecIndex == Init /\ [][NextIndex]_vars

\* ------------------------------------------------- load_all_solutions
\* load_solution(solution_id): None when solutions/{id}.json does not exist
\* and when from_dict raises.
load_solution(solution_id) ==
    IF solFiles[solution_id] = ABSENT THEN NoSolution ELSE SolutionOrNone(solFiles[solution_id])

\* The individual files sol_*.json, each through load_solution.
RECURSIVE LoadedFrom(_)
LoadedFrom(i) ==
    IF i > NumSolIds THEN <<>>
    ELSE (IF startswith_sol(i) /\ load_solution(i) # NoSolution THEN <<load_solution(i)>> ELSE <<>>)
             \o LoadedFrom(i + 1)

load_all_solutions ==
    /\ opsLeft > 0
    /\ last' = [NoCall EXCEPT !.kind = "load_all_solutions", !.ret = TRUE,
                              !.result = Deduplicate(<<>>, LoadedFrom(1) \o Flatten(batchFiles))]
    /\ opsLeft' = opsLeft - 1
    /\ UNCHANGED <<annex, fileStore, convs, bak, idxMem, idxFile, solFiles, batchFiles>>

\* update_solution_reference_count(solution_id), to the end of
\* increment_reference: False when load_solution returns None.
update_solution_reference_count(p, solution_id) ==
    /\ opsLeft > 0
    /\ refOp[p] = NoSolution
    /\ LET solution == load_solution(solution_id)
       IN IF solution = NoSolution
          THEN /\ last' = [NoCall EXCEPT !.kind = "update_reference", !.by = p, !.id = solution_id,
                                         !.pre = solFiles[solution_id], !.ret = FALSE]
               /\ UNCHANGED refOp
          ELSE /\ refOp' = [refOp EXCEPT ![p] = [kind |-> "loaded", seen |-> solFiles[solution_id],
                                                  solution |-> increment_reference(solution)]]
               /\ UNCHANGED last
    /\ opsLeft' = opsLeft - 1
    /\ UNCHANGED <<fileStore, convs, bak, idxMem, idxFile, solFiles, batchFiles, besidesRefs>>

\* update_solution_reference_count, the rest: save_solution(solution) and
\* its result.
SaveReferenceCount(p) ==
    /\ refOp[p] # NoSolution
    /\ LET solution == refOp[p].solution
       IN /\ solFiles' = [solFiles EXCEPT ![solution.id] = solution]
          /\ bak' = IF solFiles[solution.id] = ABSENT THEN bak ELSE bak \cup {solFiles[solution.id]}
          /\ last' = [NoCall EXCEPT !.kind = "update_reference", !.by = p, !.id = solution.id,
                                    !.pre = refOp[p].seen, !.rec = solution, !.ret = TRUE]
    /\ refOp' = [refOp EXCEPT ![p] = NoSolution]
    /\ UNCHANGED <<fileStore, convs, idxMem, idxFile, batchFiles, opsLeft, besidesRefs>>

\* ------------------------------------------------------ legacy records
\* Conversation files written before language was required: one code
\* solution without language, whose content holds any of the keywords.
LegacyContents == {{"npm", "def "}, {"import ", "const "}, {"let ", "php"}, {"<?php"}, {"int main", "java"}, {"public class"}, {}}

LegacyDocs ==
    {[kind |-> "doc", id |-> i, created_at |-> CreatedMonth(i), category |-> "zh:debugging",
      solutions |-> <<[type |-> "code", language |-> "none", content |-> c]>>] :
        i \in Ids, c \in LegacyContents}

\* A store that holds legacy files, each in the directory of its month.
InitLegacy ==
    /\ InitStore
    /\ files \in {f \in [Paths -> {ABSENT} \cup LegacyDocs] :
                    \A q \in Paths : f[q] # ABSENT => f[q].id = q[1] /\ f[q].created_at = q[2]}
    /\ lastSaved = [i \in Ids |-> NoRecord]
    /\ instOf = [p \in Parties |-> p]
    /\ osName = "posix"
    /\ InitCatalog

\* The loads of any parties, and the passing of time.
NextLegacy ==
    \/ \E p \in Parties, id \in Ids, all \in BOOLEAN : LoadCall(p, id, all)
    \/ \E p \in Parties : LdFindToday(p)
    \/ \E p \in Parties : LdFindScan(p)
    \/ \E p \in Parties : LdFindNone(p)
    \/ \E p \in Parties : FlAcquire(p)
    \/ \E p \in Parties : FlOpen(p)
    \/ \E p \in Parties : FlFlock(p)
    \/ \E p \in Parties : LdRead(p)
    \/ TickSecond

SpecLegacy == InitLegacy /\ [][NextLegacy]_vars

\* ------------------------------------------------- list_conversations
\* The listed files of a store: list_conversations(limit, start_date,
\* end_date) returns their stems.
ListedFiles(store, limit, start_date, end_date) ==
    TakeUntilLimit(<<>>,
                   InVisitOrder({f \in ListFiles : store[f] # 0 /\ DirInRange(f[1], start_date, end_date)}),
                   limit)

\* save_conversation(conversation) of a conversation created on a date.
SaveCreatedOn(id, created_at) ==
    /\ opsLeft > 0
    /\ tree' = [tree EXCEPT ![<<<<created_at[1], created_at[2]>>, id>>] = created_at[3]]
    /\ last' = [NoCall EXCEPT !.kind = "save_created_on", !.id = id, !.ret = TRUE]
    /\ opsLeft' = opsLeft - 1
    /\ UNCHANGED <<fileStore, indexStore, besidesListing>>

ListConversations(limit, start_date, end_date) ==
    /\ opsLeft > 0
    /\ last' = [NoCall EXCEPT !.kind = "list",
                              !.args = [limit |-> limit, start_date |-> start_date, end_date |-> end_date],
                              !.result = ListedFiles(tree, limit, start_date, end_date), !.ret = TRUE]
    /\ opsLeft' = opsLeft - 1
    /\ UNCHANGED <<fileStore, indexStore, annex>>

NextList ==
    \/ \E i \in ListIds, d \in Dates : SaveCreatedOn(i, d)
    \/ \E l \in ListLimits, a, b \in Dates \cup {NoDate} : ListConversations(l, a, b)

SpecList == Init /\ [][NextList]_vars

\* A solutions directory that holds any batch files, in the order glob yields
\* them, and no individual file yet.
InitSolutions ==
    /\ InitStore
    /\ files = [p \in Paths |-> ABSENT]
    /\ lastSaved = [i \in Ids |-> NoRecord]
    /\ instOf = [p \in Parties |-> p]
    /\ osName = "posix"
    /\ convs = [i \in ConvIds |-> NoRecord]
    /\ bak = {}
    /\ idxMem = [x \in Indexers |-> NoIndex]
    /\ idxFile = ABSENT
    /\ solFiles = [i \in SolIds |-> ABSENT]
    /\ batchFiles \in BatchDirs
    /\ last = NoCall
    /\ refOp = [p \in Parties |-> NoSolution]
    /\ tree = [f \in ListFiles |-> 0]
    /\ dataDirs = NoData
    /\ importPath = NoImportPath
    /\ preImport = [t \in 0..MaxTs |-> NoData]
    /\ impOp = IdleImport
    /\ bkDir = [b \in BackupFileIds |-> NoBackupFile]
    /\ today = 0
    /\ cleaned = NoCleanup
    /\ lockMutex = [i \in Instances |-> 0]
    /\ updOp = [x \in Indexers |-> NoUpdate]

NextSolutions ==
    \/ \E s \in Solutions : save_solution(s)
    \/ load_all_solutions
    \/ \E p \in Parties, i \in SolIds : update_solution_reference_count(p, i)
    \/ \E p \in Parties : SaveReferenceCount(p)

SpecSolutions == InitSolutions /\ [][NextSolutions]_vars

\* ------------------------------------------------------------ properties
\* Inside _atomic_write_json for its path: from the exists() check to the
\* return.
Writing(q) == InFlight(q) /\ op[q].kind = "save"

\* Inside the with block of _file_lock: the file is open and locked.
Reading(p) == InFlight(p) /\ op[p].kind \in {"load", "delete"} /\ op[p].pc = "fl_body"

\* The call of party p has returned and no save or delete of the same id
\* overlapped it or started since.
ReturnedAlone(p, kind) == op[p].kind = kind /\ op[p].pc = "done" /\ ~op[p].disturbed

\* C1: a reader that reads P while a write of P is under way observes either
\* the complete content P had before that write or the complete new content,
\* never an empty or partial document.
C1_ReadersSeeOldOrNew == \A p \in Parties : ~op[p].torn

\* C2: two saves to the same path never interleave: at any time at most one
\* writer is inside the write of a given path.
C2_OneWriterPerPath ==
    \A p, q \in Parties : (p # q /\ Writing(p) /\ Writing(q)) => op[p].path # op[q].path

\* C3: no reader is inside its read of a path while a writer is writing that
\* path (readers may share the path among themselves).
C3_NoReaderBesideWriter ==
    \A p, q \in Parties : (Reading(p) /\ Writing(q)) => op[p].path # op[q].path

\* C4: if the process crashes at any step of a write to P, then after the
\* crash P holds the complete old or the complete new content.
C4_CrashLeavesOldOrNew ==
    \A p \in Parties :
        (op[p].kind = "save" /\ op[p].pc = "crashed" /\ ~op[p].disturbed)
            => files[op[p].path] \in {op[p].pre, to_dict(op[p].rec)}

\* C5: if a write to an existing P fails while the temp file is written, after
\* the backup of P was taken, then when the write returns P holds what it held
\* before the write.
C5_FailedWriteRestoresP ==
    \A p \in Parties :
        (ReturnedAlone(p, "save") /\ op[p].failedAt = "temp" /\ op[p].backedUp)
            => files[op[p].path] = op[p].pre

\* C6: save_conversation returns a boolean; when it returns False the file at
\* the record's path holds what it held before the call (or is still absent),
\* when it returns True the file holds the record's serialization.
C6_SaveResultTellsTheFile ==
    \A p \in Parties :
        ReturnedAlone(p, "save") =>
            /\ op[p].ret \in {"true", "false"}
            /\ op[p].ret = "false" => files[op[p].path] = op[p].pre
            /\ op[p].ret = "true" => files[op[p].path] = to_dict(op[p].rec)

\* C7: when the per-path thread lock or the OS advisory lock is held by
\* another party, the acquisition fails with the timeout error after the
\* timeout: never with another error, never at once.
C7_ContentionEndsInTimeout ==
    \A p \in Parties : op[p].pc = "done" => op[p].cause # "BlockingIOError"

\* C8: the outcome of a load that timed out on the lock is distinguishable
\* from the absent result of a missing or undecodable file.
C8_TimeoutIsNotAbsent ==
    \A p \in Parties :
        (op[p].kind = "load" /\ op[p].pc = "done" /\ op[p].cause = "TimeoutError")
            => op[p].ret # "absent"

\* C9: after save_conversation(R) returned True the file is the one under
\* R.created_at's month; load_conversation(R.id) with search_all_dates returns
\* a record equal to R whatever the current date; without search_all_dates it
\* returns absent when today's month is not R's.
C9_SavedRecordIsLoaded ==
    \A p \in Parties :
        /\ (ReturnedAlone(p, "save") /\ op[p].ret = "true")
              => files[<<op[p].rec.id, op[p].rec.created_at>>] = to_dict(op[p].rec)
        /\ (ReturnedAlone(p, "load") /\ op[p].expect.kind = "record" /\ op[p].searchAll)
              => (op[p].ret = "record" /\ op[p].loaded = op[p].expect)
        /\ (ReturnedAlone(p, "load") /\ op[p].expect.kind = "record" /\ ~op[p].searchAll
                /\ op[p].today # op[p].expect.created_at)
              => op[p].ret = "absent"

\* C10: delete_conversation(id) returns False and changes no file when no
\* conversation with that id is stored; otherwise the file is copied to
\* backups/ before it is unlinked, True is returned, and a later
\* load_conversation(id) returns absent.
C10_DeleteBacksUpThenUnlinks ==
    \A p \in Parties :
        /\ (ReturnedAlone(p, "delete") /\ op[p].pre = ABSENT)
              => (op[p].ret = "false" /\ ~op[p].backedUp /\ \A m \in Months : ~exists(<<op[p].id, m>>))
        /\ (ReturnedAlone(p, "delete") /\ IsDoc(op[p].pre))
              => /\ op[p].ret = "true"
                 /\ op[p].backedUp /\ backups[op[p].bi] = op[p].pre
                 /\ \A m \in Months : ~exists(<<op[p].id, m>>)
        /\ (ReturnedAlone(p, "load") /\ op[p].expect = Deleted) => op[p].ret = "absent"

\* --------------------------------------- properties of the search index
\* The ids of a result list.
ResultIds(result) == {result[k].id : k \in DOMAIN result}

\* The last call was a search with a query only.
PlainSearch ==
    /\ last.kind = "search"
    /\ last.args.tags = {} /\ last.args.category = ""
    /\ last.args.importance_min = 0 /\ last.args.time_range = ""

\* The keys of a map of sets under which an id is found.
KeysOf(map, id) == {k \in DOMAIN map : id \in map[k]}

\* C11: save_conversation, delete_conversation and save_solution leave the
\* in-memory index of every indexer and indexes/search_index.json exactly as
\* they were, so a deleted conversation's id is still indexed after the call.
C11_StoreCallsLeaveTheIndex ==
    [][last'.kind \in {"save_conversation", "delete_conversation", "save_solution"}
          => UNCHANGED <<idxMem, idxFile>>]_vars

\* C11 witness: a conversation was deleted from the store and its id is still
\* in the index file and in an indexer's memory, where a search finds it.
C11_DeletedIdStillIndexed ==
    /\ last.kind = "delete_conversation" /\ last.ret
    /\ convs[last.id] = NoRecord
    /\ idxFile # ABSENT /\ last.id \in DOMAIN idxFile.metadata_index
    /\ \E x \in Indexers :
          /\ idxMem[x] # NoIndex
          /\ \E a \in SearchArgs : last.id \in Survivors(idxMem[x], a)

\* C12 as stated: a search for the title of any indexed record, with no other
\* filter, returns a list that holds the record's id with a score above 0.
C12_TitleSearchFindsEveryRecord ==
    PlainSearch =>
        \A i \in DOMAIN last.pre.metadata_index :
            last.pre.metadata_index[i].title = last.args.query
                => \E k \in DOMAIN last.result : last.result[k].id = i /\ last.result[k].match_score > 0

\* C12 amended: for an indexed record whose title has at least one indexable
\* token (2 or more characters after lowercasing and removing punctuation, and
\* no stopword), a search for the title with no other filter matches the
\* record with a score above 0 and returns it whenever no more than `limit`
\* conversations match; for a title with no indexable token it returns nothing.
C12_TitleSearchFindsTokenizedTitles ==
    PlainSearch =>
        \A i \in DOMAIN last.pre.metadata_index :
            last.pre.metadata_index[i].title = last.args.query =>
                IF _tokenize_text(last.args.query) = {}
                THEN last.result = <<>>
                ELSE /\ i \in Survivors(last.pre, last.args)
                     /\ MatchScore(last.pre, last.args, i) > 0
                     /\ Cardinality(Survivors(last.pre, last.args)) <= last.args.limit
                           => i \in ResultIds(last.result)
                     /\ \A k \in DOMAIN last.result : last.result[k].match_score > 0

\* C12 witness: a search for the title of an indexed record returned it.
C12_TitleSearchReturnedRecord ==
    /\ PlainSearch
    /\ \E i \in ResultIds(last.result) :
          /\ last.pre.metadata_index[i].title = last.args.query
          /\ \E j \in DOMAIN last.pre.metadata_index : j # i

\* C13: after remove_conversation(id) returned True the id is in no keyword
\* set, in no tag set and has no metadata entry, and no keyword or tag maps to
\* an empty set, whatever the length of the record's summary.
C13_RemoveLeavesNoTrace ==
    (last.kind = "remove" /\ last.ret) =>
        LET index == idxMem[last.by]
        IN /\ KeysOf(index.keyword_index, last.id) = {}
           /\ KeysOf(index.tag_index, last.id) = {}
           /\ last.id \notin DOMAIN index.metadata_index
           /\ \A k \in DOMAIN index.keyword_index : index.keyword_index[k] # {}
           /\ \A t \in DOMAIN index.tag_index : index.tag_index[t] # {}

\* C14: after rebuild_index returned True an id has a metadata entry exactly
\* when its conversation file exists, and the index is the index of the
\* stored conversations.
C14_RebuildIndexesEveryFile ==
    (last.kind = "rebuild" /\ last.ret) =>
        /\ \A i \in ConvIds : i \in DOMAIN idxMem[last.by].metadata_index <=> convs[i] # NoRecord
        /\ idxMem[last.by] = IndexOfAll(SearchIndex, {i \in ConvIds : convs[i] # NoRecord})
        /\ idxFile = IndexToDict(idxMem[last.by])

\* C15: within one process every caller works on one in-memory index: after
\* an add, a remove, an update or a rebuild made through one indexer, the
\* index any other caller's next call works on is that same index.
C15_CallersShareOneIndex ==
    (last.kind \in {"add", "remove", "update", "rebuild"} /\ last.ret) =>
        \A y \in Indexers : load_index(y) = idxMem[last.by]

\* C16: after update_conversation(R') the id is in exactly the keyword sets
\* and tag sets derived from R', its metadata entry is that of R', and for an
\* id that was not indexed the index is the one add_conversation(R') makes.
C16_UpdateLeavesExactlyTheNewEntry ==
    last.kind = "update" =>
        LET index == idxMem[last.by]
        IN /\ KeysOf(index.keyword_index, last.id) = _extract_keywords(last.rec)
           /\ KeysOf(index.tag_index, last.id) = {Lower(t) : t \in last.rec.tags}
           /\ index.metadata_index[last.id] = MetadataOf(last.rec)
           /\ last.id \notin DOMAIN last.pre.metadata_index => index = IndexWith(last.pre, last.rec)

\* C17 as stated: with tags given, every result is both a keyword candidate
\* and a tag candidate.
C17_ResultsAreKeywordAndTagCandidates ==
    (last.kind = "search" /\ last.args.tags # {}) =>
        ResultIds(last.result) \subseteq
            (_search_by_keywords(last.pre, _tokenize_query(last.args.query))
                \cap _search_by_tags(last.pre, last.args.tags))

\* C17 amended: with tags given, the results are keyword candidates and tag
\* candidates when some query token is indexed; when no query token is indexed
\* the search falls back to the tag candidates alone, and returns ids that are
\* no keyword candidates.
C17_ResultsIntersectOrFallBackToTags ==
    (last.kind = "search" /\ last.args.tags # {}) =>
        LET keyword_ids == _search_by_keywords(last.pre, _tokenize_query(last.args.query))
            tag_ids == _search_by_tags(last.pre, last.args.tags)
        IN /\ keyword_ids # {} => ResultIds(last.result) \subseteq (keyword_ids \cap tag_ids)
           /\ keyword_ids = {} =>
                 LET passing == {i \in tag_ids \cap DOMAIN last.pre.metadata_index :
                                   PassesFilters(last.pre.metadata_index[i], last.args.category,
                                                 last.args.importance_min, last.args.time_range)}
                 IN /\ ResultIds(last.result) \subseteq passing
                    /\ Len(last.result) = last.args.limit \/ ResultIds(last.result) = passing

\* C17 witness: a search with tags whose query matched no keyword returned a
\* conversation found by its tag alone.
C17_TagOnlyResultReturned ==
    /\ last.kind = "search" /\ last.args.tags # {}
    /\ _search_by_keywords(last.pre, _tokenize_query(last.args.query)) = {}
    /\ last.result # <<>>

\* C18: every result passes the filters given (category equal, importance at
\* least importance_min, creation time inside time_range), the results are in
\* order of non-increasing match score, there are at most `limit` of them, and
\* they are the highest-scoring conversations that pass.
C18_ResultsFilteredSortedTruncated ==
    last.kind = "search" =>
        LET a == last.args
            meta == last.pre.metadata_index
            passing == {i \in Candidates(last.pre, _tokenize_query(a.query), a.tags) \cap DOMAIN meta :
                          /\ a.category = "" \/ meta[i].category = a.category
                          /\ a.importance_min = 0 \/ meta[i].importance >= a.importance_min
                          /\ a.time_range # "week" \/ meta[i].days_old <= WeekDays
                          /\ a.time_range # "month" \/ meta[i].days_old <= MonthDays}
        IN /\ ResultIds(last.result) \subseteq passing
           /\ \A j, k \in DOMAIN last.result : j # k => last.result[j].id # last.result[k].id
           /\ \A k \in DOMAIN last.result :
                 last.result[k].match_score = MatchScore(last.pre, a, last.result[k].id)
           /\ \A j, k \in DOMAIN last.result :
                 j < k => last.result[j].match_score >= last.result[k].match_score
           /\ Len(last.result) <= a.limit
           /\ Len(last.result) = a.limit \/ ResultIds(last.result) = passing
           /\ \A i \in passing \ ResultIds(last.result), k \in DOMAIN last.result :
                 last.result[k].match_score >= MatchScore(last.pre, a, i)

\* C18 witness: a search with a filter and limit 1 returned the better of two
\* conversations that passed.
C18_BestOfSeveralReturned ==
    /\ last.kind = "search" /\ last.args.limit = 1 /\ last.args.category # ""
    /\ Len(last.result) = 1
    /\ \E i \in Survivors(last.pre, last.args) \ ResultIds(last.result) :
          MatchScore(last.pre, last.args, i) < last.result[1].match_score

\* ------------------------------------------ properties of the solutions
\* The solution documents stored under an id that from_dict accepts: the
\* individual file and the entries of the batch files.
StoredVariants(id) ==
    (IF solFiles[id] # ABSENT /\ SolutionOrNone(solFiles[id]) # NoSolution THEN {solFiles[id]} ELSE {})
        \cup {s \in {Flatten(batchFiles)[k] : k \in DOMAIN Flatten(batchFiles)} : s.id = id}

\* C19: load_all_solutions returns no two solutions with the same id, and
\* among the stored variants of an id it returns one with the highest
\* reference_count.
C19_OnePerIdWithHighestCount ==
    last.kind = "load_all_solutions" =>
        /\ \A j, k \in DOMAIN last.result : j # k => last.result[j].id # last.result[k].id
        /\ \A k \in DOMAIN last.result :
              \A s \in StoredVariants(last.result[k].id) :
                  last.result[k].reference_count >= s.reference_count

\* C20: load_all_solutions returns, by id, every solution stored under
\* solutions/, in an individual file or in a batch file, whatever its id.
C20_EveryStoredSolutionReturned ==
    last.kind = "load_all_solutions" =>
        \A i \in SolIds : StoredVariants(i) # {} => \E k \in DOMAIN last.result : last.result[k].id = i

\* C21: update_solution_reference_count(id) on a stored solution returns
\* True and leaves the stored solution with reference_count one higher and
\* last_referenced set, every other field as it was; for an id without a
\* solutions/{id}.json it returns False and writes nothing.
C21_ReferenceCountedOnce ==
    last.kind = "update_reference" =>
        IF last.pre = ABSENT
        THEN ~last.ret /\ solFiles[last.id] = ABSENT
        ELSE /\ last.ret
             /\ solFiles[last.id] =
                   [last.pre EXCEPT !.reference_count = @ + 1, !.last_referenced = "now"]

\* ---------------------------------------------- properties of the listing
\* The files a listing without limit returns for the dates of the last call.
Unlimited == ListedFiles(tree, NoLimit, last.args.start_date, last.args.end_date)

\* C22: list_conversations returns the ids newest year first and, within a
\* year, newest month first; with a limit given the result is the first
\* `limit` elements of the result without limit, and no longer than `limit`.
C22_NewestFirstAndLimited ==
    last.kind = "list" =>
        /\ \A j, k \in DOMAIN last.result :
              j < k => \/ last.result[j][1][1] > last.result[k][1][1]
                       \/ /\ last.result[j][1][1] = last.result[k][1][1]
                          /\ last.result[j][1][2] >= last.result[k][1][2]
        /\ last.args.limit.given =>
              /\ Len(last.result) <= last.args.limit.n
              /\ last.result = [k \in 1..Len(last.result) |-> Unlimited[k]]
              /\ Len(last.result) = last.args.limit.n \/ last.result = Unlimited

\* C23: list_conversations(start_date, end_date) returns exactly the stored
\* conversations created on a date d with start_date <= d <= end_date.
C23_ExactlyTheDatesInRange ==
    (last.kind = "list" /\ ~last.args.limit.given) =>
        {last.result[k] : k \in DOMAIN last.result} =
            {f \in ListFiles :
                /\ tree[f] # 0
                /\ last.args.start_date = NoDate \/ DateLE(last.args.start_date, <<f[1][1], f[1][2], tree[f]>>)
                /\ last.args.end_date = NoDate \/ DateLE(<<f[1][1], f[1][2], tree[f]>>, last.args.end_date)}

\* ------------------------------------------ properties of legacy records
\* A load of party p that found the file and is over.
LoadOver(p) == op[p].kind = "load" /\ op[p].pc = "done" /\ op[p].cause # "notfound"

\* C24: every load of a stored conversation whose code solution has no
\* language returns the record with the same language for that solution, one
\* of the languages of the inference and never none, and no step of a load
\* changes a conversation file, a backup or a temp file.
C24_LegacyLanguageInferredWithoutWrite ==
    /\ [](\A p \in Parties :
             LoadOver(p) =>
                /\ op[p].ret = "record"
                /\ \A k \in DOMAIN op[p].seen.solutions :
                      op[p].loaded.solutions[k].language
                          \in {"bash", "python", "javascript", "php", "c", "java", "shell"}
                /\ \A q \in Parties :
                      (LoadOver(q) /\ op[q].id = op[p].id) => op[q].loaded = op[p].loaded)
    /\ [][files' = files /\ backups' = backups /\ orphans' = orphans]_vars

\* C24 witness: two loads of one legacy conversation are over, both with the
\* language bash for a content that holds npm and def.
C24_TwoLoadsSameLanguage ==
    \E p, q \in Parties :
        /\ p # q /\ LoadOver(p) /\ LoadOver(q) /\ op[p].id = op[q].id
        /\ op[p].seen.solutions[1].language = "none"
        /\ op[p].seen.solutions[1].content = {"npm", "def "}
        /\ op[p].loaded.solutions[1].language = "bash"
        /\ op[q].loaded.solutions[1].language = "bash"

\* ---------------------------------------------- export_data, import_data
\* What the steps of an import leave alone.
besidesImport == <<unixTs, files, backups, orphans, procs, locks, op, lastSaved, indexStore, last, besidesImporting, importPath>>

\* FileManager.import_data, up to the call of export_data: False when
\* import_path does not exist; else the backup goes to
\* backups/pre_import_{int(time.time())}.
import_data(merge_mode) ==
    /\ opsLeft > 0
    /\ impOp.pc \in {"idle", "done"}
    /\ opsLeft' = opsLeft - 1
    /\ impOp' = IF ~importPath.exists
                    THEN [IdleImport EXCEPT !.pc = "done", !.merge_mode = merge_mode, !.before = dataDirs]
                    ELSE [IdleImport EXCEPT !.pc = "export", !.merge_mode = merge_mode, !.k = 1,
                                            !.ts = unixTs, !.before = dataDirs]
    /\ UNCHANGED <<besidesImport, dataDirs, preImport, faults>>

\* FileManager.export_data, one subtree: copied if it exists.
ExportSubtree ==
    /\ impOp.pc = "export"
    /\ LET n == Subtrees[impOp.k] IN
        preImport' = [preImport EXCEPT ![impOp.ts][n] =
                        IF dataDirs[n].exists THEN copytree(dataDirs[n], @) ELSE @]
    /\ impOp' = IF impOp.k = Len(Subtrees) THEN [impOp EXCEPT !.pc = "export_info"]
                                           ELSE [impOp EXCEPT !.k = impOp.k + 1]
    /\ UNCHANGED <<besidesImport, dataDirs, opsLeft, faults>>

\* FileManager.export_data: export_info.json is written, True is returned.
ExportInfo ==
    /\ impOp.pc = "export_info"
    /\ impOp' = [impOp EXCEPT !.pc = "import", !.k = 1, !.backup_success = TRUE]
    /\ UNCHANGED <<besidesImport, dataDirs, preImport, opsLeft, faults>>

\* FileManager.export_data: a copytree or the writing of export_info.json
\* raises, False is returned; import_data logs a warning and goes on.
ExportFails ==
    /\ impOp.pc \in {"export", "export_info"}
    /\ Fault
    /\ IF impOp.pc = "export" /\ dataDirs[Subtrees[impOp.k]].exists
           THEN LET n == Subtrees[impOp.k] IN
                \E left \in CopytreeRaised(dataDirs[n], preImport[impOp.ts][n]) :
                    preImport' = [preImport EXCEPT ![impOp.ts][n] = left]
           ELSE UNCHANGED preImport
    /\ impOp' = [impOp EXCEPT !.pc = "import", !.k = 1, !.backup_success = FALSE]
    /\ UNCHANGED <<besidesImport, dataDirs, opsLeft>>

\* FileManager.import_data: the source has no such subtree, nothing is done.
ImportAbsent ==
    /\ impOp.pc = "import"
    /\ ~importPath.dirs[Subtrees[impOp.k]].exists
    /\ impOp' = AfterSubtree(impOp)
    /\ UNCHANGED <<besidesImport, dataDirs, preImport, opsLeft, faults>>

\* Whether import_data removes the destination subtree first.
RemovesFirst ==
    /\ impOp.merge_mode = "overwrite"
    /\ dataDirs[Subtrees[impOp.k]].exists
    /\ ~impOp.removed

\* FileManager.import_data: shutil.rmtree(dst) in overwrite mode.
ImportRmtree ==
    /\ impOp.pc = "import"
    /\ importPath.dirs[Subtrees[impOp.k]].exists
    /\ RemovesFirst
    /\ dataDirs' = [dataDirs EXCEPT ![Subtrees[impOp.k]] = NoDir]
    /\ impOp' = [impOp EXCEPT !.removed = TRUE]
    /\ UNCHANGED <<besidesImport, preImport, opsLeft, faults>>

\* FileManager.import_data: shutil.copytree(src, dst, dirs_exist_ok=True).
ImportCopytree ==
    /\ impOp.pc = "import"
    /\ importPath.dirs[Subtrees[impOp.k]].exists
    /\ ~RemovesFirst
    /\ LET n == Subtrees[impOp.k] IN
        dataDirs' = [dataDirs EXCEPT ![n] = copytree(importPath.dirs[n], @)]
    /\ impOp' = AfterSubtree(impOp)
    /\ UNCHANGED <<besidesImport, preImport, opsLeft, faults>>

\* FileManager.import_data: rmtree or copytree raises, False is returned.
ImportFails ==
    /\ impOp.pc = "import"
    /\ importPath.dirs[Subtrees[impOp.k]].exists
    /\ Fault
    /\ LET n == Subtrees[impOp.k] IN
        \E left \in IF RemovesFirst THEN RmtreeRaised(dataDirs[n])
                                    ELSE CopytreeRaised(importPath.dirs[n], dataDirs[n]) :
            dataDirs' = [dataDirs EXCEPT ![n] = left]
    /\ impOp' = [impOp EXCEPT !.pc = "done", !.ret = FALSE, !.removed = FALSE]
    /\ UNCHANGED <<besidesImport, preImport, opsLeft>>

\* A store with any data, and any directory to import.
InitImport ==
    /\ InitStore
    /\ files = [p \in Paths |-> ABSENT]
    /\ lastSaved = [i \in Ids |-> NoRecord]
    /\ instOf = [p \in Parties |-> p]
    /\ osName = "posix"
    /\ convs = [i \in ConvIds |-> NoRecord]
    /\ bak = {}
    /\ idxMem = [x \in Indexers |-> NoIndex]
    /\ idxFile = ABSENT
    /\ solFiles = [i \in SolIds |-> ABSENT]
    /\ batchFiles = <<>>
    /\ last = NoCall
    /\ refOp = [p \in Parties |-> NoSolution]
    /\ tree = [f \in ListFiles |-> 0]
    /\ dataDirs \in [SubtreeNames -> Trees("old")]
    /\ importPath \in ImportPaths
    /\ preImport = [t \in 0..MaxTs |-> NoData]
    /\ impOp = IdleImport
    /\ bkDir = [b \in BackupFileIds |-> NoBackupFile]
    /\ today = 0
    /\ cleaned = NoCleanup
    /\ lockMutex = [i \in Instances |-> 0]
    /\ updOp = [x \in Indexers |-> NoUpdate]

NextImport ==
    \/ \E merge_mode \in {"append", "overwrite"} : import_data(merge_mode)
    \/ ExportSubtree
    \/ ExportInfo
    \/ ExportFails
    \/ ImportAbsent
    \/ ImportRmtree
    \/ ImportCopytree
    \/ ImportFails
    \/ TickSecond

SpecImport == InitImport /\ [][NextImport]_vars

\* -------------------------------------------------- properties of import
\* Whether tree a holds every file of tree b with the content it has in b.
HoldsAll(a, b) ==
    /\ b.exists => a.exists
    /\ \A f \in ImportFiles : b.files[f] # "none" => a.files[f] = b.files[f]

\* C25: once an import has changed anything in conversations/, solutions/ or
\* indexes/, its directory backups/pre_import_{second} holds a complete copy
\* of what the three subtrees held when the import was called.
C25_CompleteBackupBeforeFirstChange ==
    (impOp.pc # "idle" /\ dataDirs # impOp.before) =>
        \A n \in SubtreeNames : HoldsAll(preImport[impOp.ts][n], impOp.before[n])

\* C26 as stated: after an import in overwrite mode has returned True, each
\* subtree equals the subtree of that name in the source, with no file of
\* before the import in it; after one in append mode, the files the source
\* lacks are as before and the files it has have its content.
C26_SubtreesEqualTheSource ==
    (impOp.pc = "done" /\ impOp.ret) =>
        \A n \in SubtreeNames, f \in ImportFiles :
            IF impOp.merge_mode = "overwrite"
                THEN dataDirs[n].files[f] = importPath.dirs[n].files[f]
                ELSE dataDirs[n].files[f] =
                        IF importPath.dirs[n].files[f] # "none"
                            THEN importPath.dirs[n].files[f] ELSE impOp.before[n].files[f]

\* C26: after an import has returned True, a subtree the source lacks is as
\* before the import; a subtree the source has equals it in overwrite mode,
\* and in append mode keeps its files the source lacks and has the content
\* of the source for the others.
C26_PresentSubtreesEqualTheSource ==
    (impOp.pc = "done" /\ impOp.ret) =>
        \A n \in SubtreeNames :
            IF ~importPath.dirs[n].exists
                THEN dataDirs[n] = impOp.before[n]
                ELSE /\ dataDirs[n].exists
                     /\ \A f \in ImportFiles :
                          dataDirs[n].files[f] =
                            IF importPath.dirs[n].files[f] = "none" /\ impOp.merge_mode # "overwrite"
                                THEN impOp.before[n].files[f] ELSE importPath.dirs[n].files[f]

\* C26 witness: an overwrite import has returned True; one subtree lost a
\* file the source does not have, another, which the source lacks, kept its
\* file.
C26_OverwriteReturnedTrue ==
    /\ impOp.pc = "done" /\ impOp.ret /\ impOp.merge_mode = "overwrite"
    /\ \E n \in SubtreeNames, f \in ImportFiles :
          /\ importPath.dirs[n].exists /\ importPath.dirs[n].files[f] = "none"
          /\ impOp.before[n].files[f] = "old" /\ dataDirs[n].files[f] = "none"
    /\ \E n \in SubtreeNames, f \in ImportFiles :
          /\ ~importPath.dirs[n].exists
          /\ impOp.before[n].files[f] = "old" /\ dataDirs[n].files[f] = "old"

\* ------------------------------------------------------- cleanup_backups
\* The backup files there are.
BackupFiles == {b \in BackupFileIds : bkDir[b].exists}

\* What a retention step leaves alone.
besidesCleanup == <<fileStore, indexStore, last, besidesRetention>>

\* FileManager._create_backup: shutil.copy2 copies the file into backups/
\* under a new name and gives the copy the st_mtime of the file copied,
\* which was written today or before.
BackupTaken(b, mtime) ==
    /\ opsLeft > 0
    /\ ~bkDir[b].exists
    /\ mtime <= today
    /\ bkDir' = [bkDir EXCEPT ![b] = BackupFile(today, mtime)]
    /\ opsLeft' = opsLeft - 1
    /\ UNCHANGED <<besidesCleanup, today, cleaned>>

\* A day passes.
TickDay ==
    /\ today < MaxDay
    /\ today' = today + 1
    /\ UNCHANGED <<besidesCleanup, bkDir, cleaned, opsLeft>>

\* The first max_count files of backup_files.sort(key=st_mtime, reverse=True):
\* among files of one st_mtime the order is that of the glob.
FirstByMtime(max_count) ==
    {keep \in SUBSET BackupFiles :
        /\ Cardinality(keep) = IF Cardinality(BackupFiles) < max_count
                                  THEN Cardinality(BackupFiles) ELSE max_count
        /\ \A a \in keep, b \in BackupFiles \ keep : bkDir[a].mtime >= bkDir[b].mtime}

\* The files cleanup_backups decides to delete: those after the first
\* max_count, and those whose st_mtime is more than max_age_days back.
ShouldDelete(keep, max_age_days) ==
    {b \in BackupFiles : b \notin keep \/ today - bkDir[b].mtime > max_age_days}

\* FileManager.cleanup_backups, every unlink succeeding.
cleanup_backups(max_age_days, max_count) ==
    /\ opsLeft > 0
    /\ \E keep \in FirstByMtime(max_count) :
        LET gone == ShouldDelete(keep, max_age_days) IN
        /\ bkDir' = [b \in BackupFileIds |-> IF b \in gone THEN NoBackupFile ELSE bkDir[b]]
        /\ cleaned' = [kind |-> "cleanup", max_age_days |-> max_age_days, max_count |-> max_count,
                       at |-> today, pre |-> bkDir, post |-> bkDir', ret |-> Cardinality(gone)]
    /\ opsLeft' = opsLeft - 1
    /\ UNCHANGED <<besidesCleanup, today>>

\* FileManager.cleanup_backups when the unlink of one file raises: a warning
\* is logged, the file stays and is not counted.
CleanupUnlinkFails(max_age_days, max_count) ==
    /\ opsLeft > 0
    /\ faults > 0
    /\ \E keep \in FirstByMtime(max_count) :
        \E stays \in ShouldDelete(keep, max_age_days) :
        LET gone == ShouldDelete(keep, max_age_days) \ {stays} IN
        /\ bkDir' = [b \in BackupFileIds |-> IF b \in gone THEN NoBackupFile ELSE bkDir[b]]
        /\ cleaned' = [kind |-> "cleanup", max_age_days |-> max_age_days, max_count |-> max_count,
                       at |-> today, pre |-> bkDir, post |-> bkDir', ret |-> Cardinality(gone)]
    /\ opsLeft' = opsLeft - 1
    /\ faults' = faults - 1
    /\ UNCHANGED <<unixTs, files, backups, orphans, procs, locks, op, lastSaved, indexStore, last,
                   besidesRetention, today>>

NextRetention ==
    \/ \E b \in BackupFileIds, mtime \in Days : BackupTaken(b, mtime)
    \/ TickDay
    \/ \E max_age_days \in 0..MaxAgeDays, max_count \in 0..NumBackupFiles :
          cleanup_backups(max_age_days, max_count)
    \/ \E max_age_days \in 0..MaxAgeDays, max_count \in 0..NumBackupFiles :
          CleanupUnlinkFails(max_age_days, max_count)

SpecRetention == Init /\ [][NextRetention]_vars

\* ------------------------------------------------- properties of cleanup
\* The backup files before the last cleanup, those it left and those it
\* removed.
BeforeCleanup == {b \in BackupFileIds : cleaned.pre[b].exists}
Remaining == {b \in BackupFileIds : cleaned.post[b].exists}
Removed == BeforeCleanup \ Remaining

\* C27: after cleanup_backups(max_age_days, max_count) at most max_count
\* backup files remain, none of them taken more than max_age_days ago, no
\* removed backup was taken after one that remains, and the number returned
\* is the number of files removed.
C27_NewestBackupsWithinBoundsRemain ==
    cleaned.kind = "cleanup" =>
        /\ Cardinality(Remaining) <= cleaned.max_count
        /\ \A b \in Remaining : cleaned.at - cleaned.pre[b].taken <= cleaned.max_age_days
        /\ \A a \in Remaining, b \in Removed : cleaned.pre[a].taken >= cleaned.pre[b].taken
        /\ cleaned.ret = Cardinality(Removed)

\* ------------------------------------------- properties of a failed write
\* C28: the step that ends a failed atomic write (return False) leaves no
\* temp file of that write in the directory of P, whichever of json.dump,
\* flush, fsync or the rename failed.
C28_FailedWriteLeavesNoTemp ==
    [][\A p \in Parties :
          (op[p].kind = "save" /\ op[p].pc = "aw_cleanup" /\ op'[p].pc = "done") =>
              orphans' = orphans]_vars

\* C29: a save whose copy of P to backups/ failed is not aborted: unless a
\* later step fails it goes on to the temp file and the rename and returns
\* True, and P then holds the new content.
C29_BackupFailureDoesNotAbort ==
    \A p \in Parties :
        (op[p].kind = "save" /\ op[p].backupFailed /\ op[p].failedAt = "none") =>
            /\ op[p].pc \in {"aw_temp", "aw_rename", "done", "crashed"}
            /\ op[p].pc = "done" => op[p].ret = "true"
            /\ (op[p].pc = "done" /\ ~op[p].disturbed) => files[op[p].path] = to_dict(op[p].rec)

\* C29 witness: a save of a new content over an existing P has returned True
\* after its backup failed.
C29_SavedWithoutBackup ==
    \E p \in Parties :
        /\ op[p].kind = "save" /\ op[p].backupFailed /\ ~op[p].backedUp
        /\ op[p].pc = "done" /\ op[p].ret = "true" /\ ~op[p].disturbed
        /\ op[p].pre # ABSENT /\ op[p].pre # to_dict(op[p].rec)
        /\ files[op[p].path] = to_dict(op[p].rec)

\* ------------------------------------------- properties of the lock scope
\* Whether party p is inside the scope of _file_lock on path.
InScope(p, path) == op[p].pc \in {"fl_open", "fl_flock", "fl_body"} /\ op[p].path = path

\* C30: every thread lock and every advisory lock that is held is held by a
\* party inside the scope that took it: after the scope is left, by the end
\* of the body, by an exception of the body, by a failed open or a failed
\* flock or locking, the party holds no lock on any path.
C30_NoLockOutlivesItsScope ==
    /\ \A k \in Instances \X Paths :
          fileLocks[k] # 0 => instOf[fileLocks[k]] = k[1] /\ InScope(fileLocks[k], k[2])
    /\ \A l \in osLocks : op[l[1]].pc = "fl_body" /\ op[l[1]].path = l[2]

\* C30 witness: a party has left the scope by a flock that failed on a path
\* another party holds locked, and holds no lock.
C30_LeftByFailedFlock ==
    \E p, q \in Parties :
        /\ p # q
        /\ op[p].pc = "done" /\ op[p].cause = "BlockingIOError"
        /\ \E l \in osLocks : l[1] = q /\ l[2] = op[p].path
        /\ \A k \in Instances \X Paths : fileLocks[k] # p
        /\ \A l \in osLocks : l[1] # p

\* ------------------------------------------------- the lock table guard
\* What the steps at the lock table leave alone besides op and lockMutex.
besidesTable == <<clock, files, backups, orphans, procs, locks, lastSaved, faults, indexStore, last, besidesGuard>>

\* _file_lock(file_path, mode) from its first line: lock_key is the path.
GuardedLockCall(p, path, mode) ==
    /\ Free(p) /\ opsLeft > 0
    /\ op' = StartOp(p, [IdleOp EXCEPT !.kind = "lock", !.pc = "fl_table", !.id = path[1],
                                       !.path = path, !.mode = mode])
    /\ opsLeft' = opsLeft - 1
    /\ UNCHANGED <<besidesTable, lockMutex>>

\* with self._lock_mutex: entered when the guard of the instance is free.
FlTableEnter(p) ==
    /\ At(p, {"lock"}, "fl_table")
    /\ lockMutex[instOf[p]] = 0
    /\ lockMutex' = [lockMutex EXCEPT ![instOf[p]] = p]
    /\ op' = [op EXCEPT ![p].pc = "fl_table_in"]
    /\ UNCHANGED <<besidesTable, opsLeft>>

\* The lock of lock_key is looked up, or made, and the guard is left before
\* file_lock.acquire is called.
FlTableExit(p) ==
    /\ At(p, {"lock"}, "fl_table_in")
    /\ lockMutex' = [lockMutex EXCEPT ![instOf[p]] = 0]
    /\ op' = [op EXCEPT ![p].pc = "fl_acquire"]
    /\ UNCHANGED <<besidesTable, opsLeft>>

NextTable ==
    \/ \E p \in Parties, path \in Paths, mode \in LockModes : GuardedLockCall(p, path, mode)
    \/ \E p \in Parties : FlTableEnter(p)
    \/ \E p \in Parties : FlTableExit(p)
    \/ \E p \in Parties : FlAcquire(p)
    \/ \E p \in Parties : FlAcquireTimeout(p)
    \/ \E p \in Parties : FlOpen(p)
    \/ \E p \in Parties : FlOpenFails(p)
    \/ \E p \in Parties : FlFlock(p)
    \/ \E p \in Parties : FlFlockBlocked(p)
    \/ \E p \in Parties : FlNtLocking(p)
    \/ \E p \in Parties : FlNtTimeout(p)
    \/ \E p \in Parties : LockExit(p)

SpecTable == InitLock /\ [][NextTable]_vars

\* -------------------------------------------- properties of the lock table
\* The thread locks party p holds.
HeldBy(p) == {k \in Instances \X Paths : fileLocks[k] = p}

\* C31: a party holds at most one path lock and one advisory lock; whoever
\* holds the table guard or a path lock is not waiting for a path lock or for
\* the guard; an acquisition whose own path is free can go on whatever other
\* paths are locked, and an acquisition fails only when its own path is
\* locked by another party.
C31_PerPathAndDeadlockFree ==
    /\ [](\A p \in Parties :
             /\ Cardinality(HeldBy(p)) <= 1
             /\ Cardinality({l \in osLocks : l[1] = p}) <= 1
             /\ HeldBy(p) # {} => op[p].pc \in {"fl_open", "fl_flock", "fl_body"}
             /\ (\E i \in Instances : lockMutex[i] = p) => op[p].pc = "fl_table_in"
             /\ (At(p, {"lock"}, "fl_acquire") /\ fileLocks[<<instOf[p], op[p].path>>] = 0)
                    => ENABLED FlAcquire(p))
    /\ [][\A p \in Parties :
             /\ (op[p].pc = "fl_acquire" /\ op'[p].pc = "done")
                    => fileLocks[<<instOf[p], op[p].path>>] \notin {0, p}
             /\ (op[p].pc = "fl_flock" /\ op'[p].pc = "done")
                    => \E l \in osLocks : l[1] # p /\ l[2] = op[p].path]_vars

\* C31 witness: two parties of one instance are inside the scope of the lock
\* on two different paths at the same time.
C31_TwoPathsLockedAtOnce ==
    \E p, q \in Parties :
        /\ p # q /\ instOf[p] = instOf[q]
        /\ op[p].pc = "fl_body" /\ op[q].pc = "fl_body" /\ op[p].path # op[q].path
        /\ fileLocks[<<instOf[p], op[p].path>>] = p
        /\ fileLocks[<<instOf[q], op[q].path>>] = q

\* ------------------------------------------ update_conversation, by steps
\* update_conversation(conversation), first call: remove_conversation, whose
\* result is not looked at; the index is saved when the id had an entry.
UpdateRemove(x, conversation) ==
    /\ opsLeft > 0
    /\ updOp[x].pc = "idle"
    /\ LET index == load_index(x)
           found == conversation.id \in DOMAIN index.metadata_index
       IN /\ Cached(x, IF found THEN IndexWithout(index, conversation.id) ELSE index)
          /\ IF found THEN save_index(IndexWithout(index, conversation.id)) ELSE UNCHANGED idxFile
          /\ last' = [NoCall EXCEPT !.kind = "update_remove", !.by = x, !.id = conversation.id,
                                    !.rec = conversation, !.pre = index, !.ret = found]
    /\ updOp' = [updOp EXCEPT ![x] = [pc |-> "add", rec |-> conversation]]
    /\ opsLeft' = opsLeft - 1
    /\ UNCHANGED <<besidesUpdating, fileStore, convs, bak, solFiles, batchFiles>>

\* update_conversation(conversation), second call: add_conversation.
UpdateAdd(x) ==
    /\ updOp[x].pc = "add"
    /\ LET index == load_index(x)
           conversation == updOp[x].rec
       IN /\ Cached(x, IndexWith(index, conversation))
          /\ save_index(IndexWith(index, conversation))
          /\ last' = [NoCall EXCEPT !.kind = "update_add", !.by = x, !.id = conversation.id,
                                    !.rec = conversation, !.pre = index, !.ret = TRUE]
    /\ updOp' = [updOp EXCEPT ![x] = NoUpdate]
    /\ UNCHANGED <<besidesUpdating, fileStore, convs, bak, solFiles, batchFiles, opsLeft>>

NextUpdate ==
    \/ \E x \in Indexers, conversation \in Conversations : add_conversation(x, conversation)
    \/ \E x \in Indexers, conversation \in Conversations : UpdateRemove(x, conversation)
    \/ \E x \in Indexers : UpdateAdd(x)
    \/ \E x \in Indexers, a \in SearchArgs : search_conversations(x, a)

SpecUpdate == Init /\ [][NextUpdate]_vars

\* ------------------------------------------------- properties of update
\* Whether an index holds the id anywhere: in its metadata, in a keyword set
\* or in a tag set.
HasEntry(index, id) ==
    \/ id \in DOMAIN index.metadata_index
    \/ KeysOf(index.keyword_index, id) # {}
    \/ KeysOf(index.tag_index, id) # {}

\* C32: between the remove step and the add step of update_conversation(R),
\* for an R that was indexed, the id of R is nowhere in the index, neither in
\* the memory of the indexer nor in indexes/search_index.json; after the add
\* step it has its metadata entry again in both.
C32_UpdateWindowHasNoEntry ==
    /\ (last.kind = "update_remove" /\ last.ret) =>
          /\ last.id \in DOMAIN last.pre.metadata_index
          /\ ~HasEntry(idxMem[last.by], last.id)
          /\ ~HasEntry(IndexFromDict(idxFile), last.id)
    /\ last.kind = "update_add" =>
          /\ last.id \in DOMAIN idxMem[last.by].metadata_index
          /\ last.id \in DOMAIN IndexFromDict(idxFile).metadata_index

\* ------------------------------------------------- save_index that fails
\* add_conversation when save_index returns False: the entry is in the cached
\* index, and open() or json.dump raised, which leaves the file as it was or
\* cut short.
AddSaveFails(x, conversation) ==
    /\ opsLeft > 0
    /\ Fault
    /\ LET index == load_index(x)
       IN /\ Cached(x, IndexWith(index, conversation))
          /\ last' = [NoCall EXCEPT !.kind = "add", !.by = x, !.id = conversation.id,
                                    !.rec = conversation, !.pre = index, !.ret = FALSE]
    /\ \E left \in {idxFile, PARTIAL} : idxFile' = left
    /\ opsLeft' = opsLeft - 1
    /\ UNCHANGED <<annex, unixTs, files, backups, orphans, procs, locks, op, lastSaved,
                   convs, bak, solFiles, batchFiles>>

NextPersist ==
    \/ \E conversation \in Conversations : save_conversation(conversation)
    \/ \E x \in Indexers, conversation \in Conversations : add_conversation(x, conversation)
    \/ \E x \in Indexers, conversation \in Conversations : AddSaveFails(x, conversation)
    \/ \E x \in Indexers, i \in ConvIds : remove_conversation(x, i)
    \/ \E x \in Indexers, conversation \in Conversations : update_conversation(x, conversation)
    \/ \E x \in Indexers : rebuild_index(x)

SpecPersist == Init /\ [][NextPersist]_vars

\* ---------------------------------------------- properties of save_index
\* C33: after add_conversation, remove_conversation, update_conversation or
\* rebuild_index returned True, indexes/search_index.json decodes to the
\* keyword_index, tag_index and metadata_index the indexer has in memory, and
\* its stats hold the numbers of metadata entries, keywords and tags.
C33_FileDecodesToMemory ==
    (last.kind \in {"add", "remove", "update", "rebuild"} /\ last.ret) =>
        IF idxFile \in {ABSENT, PARTIAL} THEN FALSE
        ELSE /\ IndexFromDict(idxFile).keyword_index = idxMem[last.by].keyword_index
             /\ IndexFromDict(idxFile).tag_index = idxMem[last.by].tag_index
             /\ IndexFromDict(idxFile).metadata_index = idxMem[last.by].metadata_index
             /\ idxFile.stats.total_conversations = Cardinality(DOMAIN idxMem[last.by].metadata_index)
             /\ idxFile.stats.total_keywords = Cardinality(DOMAIN idxMem[last.by].keyword_index)
             /\ idxFile.stats.total_tags = Cardinality(DOMAIN idxMem[last.by].tag_index)

\* C33 witness: after a save that failed and cut the file short, an update
\* has returned True and the file holds the two tags and the entries of the
\* memory again.
C33_SavedAfterFailedSave ==
    /\ last.kind = "update" /\ last.ret /\ faults < MaxFaults
    /\ last.pre # SearchIndex
    /\ idxFile \notin {ABSENT, PARTIAL}
    /\ Cardinality(DOMAIN idxMem[last.by].metadata_index) = 2
    /\ idxFile.stats.total_tags = 2
    /\ IndexFromDict(idxFile) = idxMem[last.by]

\* ------------------------------------------------ keywords from the tags
\* Records whose tag has punctuation: validate_tags strips and lowercases a
\* tag and keeps "c++" as it is.
PunctuatedContents ==
    {[title |-> <<"Async", "bug!">>, summary |-> <<"bug!">>, tags |-> {"c++"},
      category |-> "notes", importance |-> 3, days_old |-> 0]}

PunctuatedConversations ==
    {[kind |-> "record", id |-> i, title |-> c.title, summary |-> c.summary, tags |-> c.tags,
      category |-> c.category, importance |-> c.importance, days_old |-> c.days_old] :
        i \in ConvIds, c \in PunctuatedContents}

NextKeywords ==
    \/ \E conversation \in Conversations \cup PunctuatedConversations :
          save_conversation(conversation)
    \/ \E x \in Indexers, conversation \in Conversations \cup PunctuatedConversations :
          add_conversation(x, conversation)
    \/ \E x \in Indexers : rebuild_index(x)
    \/ \E x \in Indexers, a \in SearchArgs : search_conversations(x, a)

SpecKeywords == Init /\ [][NextKeywords]_vars

\* C34: every key of keyword_index is a lowercase token without punctuation,
\* of two characters or more and not a stop word, so that tokenizing the key
\* as a query gives the key back, whether the key came from the title, the
\* summary, the tags or the category.
C34_EveryKeyIsAQueryToken ==
    \A x \in Indexers :
        idxMem[x] # NoIndex =>
            \A k \in DOMAIN idxMem[x].keyword_index : _tokenize_query(<<k>>) = {k}

\* ------------------------------------------------ properties of backups
\* C35: a backup that was taken stays in backups/ with the content it was
\* taken with: no later backup, of the same file or of a file with the same
\* name, replaces it (no step of save, load or delete removes backups).
C35_BackupIsNeverReplaced ==
    [][\A b \in BackupNames : IsDoc(backups[b]) => backups'[b] = backups[b]]_vars

\* --------------------------------------------- properties of the file tree
\* C36: there is at most one conversation file per id across all the
\* year/month directories, also after a record was saved again under its id.
C36_OneFilePerId ==
    \A i \in ListIds : Cardinality({f \in ListFiles : f[2] = i /\ tree[f] # 0}) <= 1

\* ---------------------------------------- properties of overlapping writes
\* C37: when two writes to the same path overlap, one returns True and the
\* other fails, then after both returned the path holds the content of the
\* write that returned True: the restore of the failed write does not replace
\* what the other had committed.  The case is the one where nothing else
\* failed: the one fault is the failure of the failed write.
C37_RestoreKeepsCommittedWrite ==
    \A p, q \in Parties :
        (/\ p # q
         /\ faults = MaxFaults - 1
         /\ op[p].kind = "save" /\ op[q].kind = "save"
         /\ op[p].pc = "done" /\ op[q].pc = "done"
         /\ op[p].path = op[q].path
         /\ op[p].disturbed /\ op[q].disturbed
         /\ op[p].ret = "true" /\ op[q].ret = "false")
            => files[op[p].path] = to_dict(op[p].rec)

\* ------------------------------------------ properties of reference counts
\* C38: concurrent update_solution_reference_count calls on one id that all
\* return True increase the stored reference_count by their number.  For two:
\* when a call saves after another call that loaded the same stored solution
\* has saved and returned True, the stored count is two more than the count
\* both loaded.
C38_NoIncrementLost ==
    [][\A p \in Parties :
          (/\ refOp[p] # NoSolution /\ refOp'[p] = NoSolution
           /\ last.kind = "update_reference" /\ last.ret /\ last.by # p
           /\ last.id = refOp[p].solution.id
           /\ last.pre = refOp[p].seen)
             => solFiles'[refOp[p].solution.id].reference_count
                   = refOp[p].seen.reference_count + 2]_vars

\* ------------------------------------------- the index and its metadata
\* The index under add_conversation, remove_conversation and
\* update_conversation alone, from the empty index.
NextMembers ==
    \/ \E x \in Indexers, conversation \in Conversations : add_conversation(x, conversation)
    \/ \E x \in Indexers, i \in ConvIds : remove_conversation(x, i)
    \/ \E x \in Indexers, conversation \in Conversations : update_conversation(x, conversation)

SpecMembers == Init /\ [][NextMembers]_vars

\* The entry holds the whole summary: nothing was cut at 200 characters.
Uncut(metadata) == Len(metadata.summary) < SummaryKept

\* C39: an id is in keyword_index[k] or in tag_index[t] only if it has a
\* metadata entry and k (or t) is derived from the title, summary, tags or
\* category of that entry; also after add_conversation was called again for
\* an indexed id with other fields.  Stated for the entries that hold the
\* whole summary.
C39_MembersAreDerivedFromMetadata ==
    \A x \in Indexers :
        idxMem[x] # NoIndex =>
            LET index == idxMem[x]
                Derived(id, k) ==
                    /\ id \in DOMAIN index.metadata_index
                    /\ Uncut(index.metadata_index[id]) =>
                          k \in _extract_keywords_from_metadata(index.metadata_index[id])
                Tagged(id, t) ==
                    /\ id \in DOMAIN index.metadata_index
                    /\ t \in {Lower(u) : u \in index.metadata_index[id].tags}
            IN /\ \A k \in DOMAIN index.keyword_index : \A id \in index.keyword_index[k] : Derived(id, k)
               /\ \A t \in DOMAIN index.tag_index : \A id \in index.tag_index[t] : Tagged(id, t)

\* C40: with two indexers that persist to the one index file, a mutation one
\* of them persisted is not undone by a later mutation of the other: every
\* id the file has an entry for keeps its entry at every step, except the id
\* that the step removes with remove_conversation.
C40_PersistedEntriesSurvive ==
    [][idxFile \notin {ABSENT, PARTIAL} =>
          \A id \in DOMAIN idxFile.metadata_index :
              \/ idxFile' \notin {ABSENT, PARTIAL} /\ id \in DOMAIN idxFile'.metadata_index
              \/ last'.kind = "remove" /\ last'.id = id /\ last'.ret]_vars

====
